---- MODULE Spec2Model ----
(***************************************************************************)
(* State-machine model of the FrameBle session class (the revision with    *)
(* the connection retry loop, src/example/decompression.js lines 64-612):  *)
(* connect / _attemptConnection, disconnect / handleDisconnect, the        *)
(* notification handler and the single-slot print and data waiters.        *)
(*                                                                         *)
(* JavaScript runs one task at a time: an action of the model is the code  *)
(* executed from one await (or event dispatch) to the next, microtasks     *)
(* (promise continuations, .finally handlers) included.                    *)
(*                                                                         *)
(* The Web Bluetooth platform is the environment.  Its modelled behaviour: *)
(*  - every transport promise either resolves or rejects with an error;    *)
(*  - a step on a GATT server that is not connected cannot resolve;        *)
(*  - BluetoothRemoteGATTServer.disconnect() on a connected server sets    *)
(*    connected to false and fires gattserverdisconnected on the device    *)
(*    before it returns; a link loss does the same in a task of its own;   *)
(*  - characteristic objects belong to one link: a new link yields new     *)
(*    objects, the same link yields the same objects;                      *)
(*  - addEventListener ignores a listener that is already registered.      *)
(***************************************************************************)
EXTENDS Integers, Sequences, FiniteSets, TLC

(***************************************************************************)
(* Bounds of the model                                                     *)
(***************************************************************************)
\* largest numAttempts passed to connect()
MaxAttempts == 3
\* number of promises of awaited calls alive at once
MaxPromises == 2
\* longest inbound notification value, in bytes
MaxMsgLen == 2
\* number of application calls of sendLua / sendData in progress at once
MaxTasks == 2
\* the longest content whose chunks are cut, in characters
MaxContent == 3
\* the largest maxChunkSize its chunks are cut with
MaxChunkSize == 4

(***************************************************************************)
(* Program constants                                                       *)
(***************************************************************************)
\* private maxPayload = 60
DefaultMaxPayload == 60
\* byteLength of "print(frame.bluetooth.max_length())"
MtuQueryLen == 35
\* byteLength of the break signal [0x03]
SignalLen == 1
\* the data-response tag byte
DataTag == 1
\* sendMessage: the bytes of the size header of the first chunk
HEADER_SIZE == 2
\* sendMessage: the longest payload
MAX_TOTAL_PAYLOAD_SIZE == 65535
\* U+FFFD, what TextDecoder emits for a malformed byte
Replacement == 65533

(***************************************************************************)
(* Inbound bytes.  1 is the data tag, 48 and 53 are the digits "0" and     *)
(* "5", 255 is a byte that is malformed wherever it stands in UTF-8.       *)
(***************************************************************************)
InBytes == {1, 48, 53, 255}

SeqsUpTo(S, n) == UNION {[1..k -> S] : k \in 0..n}

Msgs == SeqsUpTo(InBytes, MaxMsgLen)

\* notifications on an open session: nothing, a data response without and with
\* payload, "5", a malformed byte, and a text that holds the data tag
SessionMsgs == {m \in Msgs : m \in {<<>>, <<1>>, <<1, 53>>, <<53>>, <<255>>, <<53, 1>>}}

\* notifications during connect(): nothing, "0", "5", "50", a malformed byte,
\* a data response
HsMsgs == {m \in Msgs : m \in {<<>>, <<48>>, <<53>>, <<53, 48>>, <<255>>, <<1>>}}

(***************************************************************************)
(* Errors: name and message.  The message is abstracted to the listed      *)
(* text it contains ("other" when it contains none of them).               *)
(***************************************************************************)
RetryTexts == {"Connection attempt failed.",
               "GATT operation failed for unknown reason.",
               "GATT Server is disconnected.",
               "Bluetooth device is already connected."}

Err(n, m) == [name |-> n, msg |-> m]

NoError == Err("-", "-")

\* connect() returned the device name
OpenOk == Err("ok", "ok")

\* errors a transport promise can reject with
TransportErrors ==
    {Err("NetworkError", "Connection attempt failed."),
     Err("NetworkError", "GATT Server is disconnected."),
     Err("NetworkError", "other"),
     Err("SecurityError", "GATT operation failed for unknown reason.")}

\* how a transport promise settles: NoError when it resolves
Outcomes == {NoError} \cup TransportErrors

\* errors the class itself raises
ErrTimeout == Err("Error", "Device didn't respond with a print")
ErrTooLarge == Err("Error", "payload is too large")
ErrNoTx == Err("Error", "Not connected or TX characteristic not available.")
ErrBadMtu == Err("Error", "Invalid MTU size received")
ErrExternal == Err("Error", "Device disconnected externally during connection attempt")
ErrNoRecord == Err("Error", "Failed to connect: no specific error recorded")
ErrUndefinedRx == Err("TypeError", "Cannot read properties of undefined")
ErrRequest == Err("NotFoundError", "User cancelled the requestDevice() chooser.")

\* connect(), the retryable-error test
isRetryableError(error) ==
    /\ error.name = "NetworkError"
    /\ error.msg \in RetryTexts

(***************************************************************************)
(* TextDecoder().decode: UTF-8 to code points.  A malformed or truncated   *)
(* sequence yields U+FFFD for its maximal valid prefix, and decoding goes  *)
(* on with the next byte; a leading byte order mark is dropped.            *)
(***************************************************************************)
IsCont(b) == b \in 128..191

\* lower and upper boundary of the first continuation byte after lead b
ContLo(b) == IF b = 224 THEN 160 ELSE IF b = 240 THEN 144 ELSE 128

ContHi(b) == IF b = 237 THEN 159 ELSE IF b = 244 THEN 143 ELSE 191

RECURSIVE Utf8(_)
Utf8(s) ==
    IF s = <<>> THEN <<>>
    ELSE LET b == Head(s)
             n == Len(s)
             from(k) == SubSeq(s, k, n)
         IN  IF b < 128 THEN <<b>> \o Utf8(Tail(s))
             ELSE IF b \in 194..223 THEN
                 IF n >= 2 /\ IsCont(s[2])
                 THEN <<(b - 192) * 64 + (s[2] - 128)>> \o Utf8(from(3))
                 ELSE <<Replacement>> \o Utf8(Tail(s))
             ELSE IF b \in 224..239 THEN
                 IF n >= 2 /\ s[2] \in ContLo(b)..ContHi(b)
                 THEN IF n >= 3 /\ IsCont(s[3])
                      THEN <<(b - 224) * 4096 + (s[2] - 128) * 64 + (s[3] - 128)>>
                               \o Utf8(from(4))
                      ELSE <<Replacement>> \o Utf8(from(3))
                 ELSE <<Replacement>> \o Utf8(Tail(s))
             ELSE IF b \in 240..244 THEN
                 IF n >= 2 /\ s[2] \in ContLo(b)..ContHi(b)
                 THEN IF n >= 3 /\ IsCont(s[3])
                      THEN IF n >= 4 /\ IsCont(s[4])
                           THEN <<(b - 240) * 262144 + (s[2] - 128) * 4096
                                    + (s[3] - 128) * 64 + (s[4] - 128)>>
                                    \o Utf8(from(5))
                           ELSE <<Replacement>> \o Utf8(from(4))
                      ELSE <<Replacement>> \o Utf8(from(3))
                 ELSE <<Replacement>> \o Utf8(Tail(s))
             ELSE <<Replacement>> \o Utf8(Tail(s))

TextDecode(value) ==
    LET d == Utf8(value)
    IN  IF d # <<>> /\ Head(d) = 65279 THEN Tail(d) ELSE d

(***************************************************************************)
(* parseInt(string) without a radix: leading white space is skipped, then  *)
(* an optional sign, an optional 0x / 0X prefix, and the longest run of    *)
(* digits; no digit gives NaN.                                             *)
(***************************************************************************)
WhiteSpace == {9, 10, 11, 12, 13, 32, 160, 5760, 8232, 8233, 8239, 8287, 12288, 65279}
                  \cup (8192..8202)

NaN == [nan |-> TRUE, val |-> 0]

Num(v) == [nan |-> FALSE, val |-> v]

RECURSIVE SkipWhite(_)
SkipWhite(s) ==
    IF s # <<>> /\ Head(s) \in WhiteSpace THEN SkipWhite(Tail(s)) ELSE s

DigitVal(c) ==
    IF c \in 48..57 THEN c - 48
    ELSE IF c \in 97..122 THEN c - 87
    ELSE IF c \in 65..90 THEN c - 55
    ELSE 99

\* value of the longest digit prefix of s in radix r, acc so far; seen: a digit was read
RECURSIVE Digits(_, _, _, _)
Digits(s, r, acc, seen) ==
    IF s # <<>> /\ DigitVal(Head(s)) < r
    THEN Digits(Tail(s), r, acc * r + DigitVal(Head(s)), TRUE)
    ELSE IF seen THEN Num(acc) ELSE NaN

\* faulty variant of parseInt: only the first character is read
parseIntFirstDigit(str) ==
    IF str # <<>> /\ DigitVal(Head(str)) < 10 THEN Num(DigitVal(Head(str))) ELSE NaN

parseInt(str) ==
    LET t == SkipWhite(str)
        neg == t # <<>> /\ Head(t) = 45
        u == IF t # <<>> /\ Head(t) \in {43, 45} THEN Tail(t) ELSE t
        hex == Len(u) >= 2 /\ u[1] = 48 /\ u[2] \in {120, 88}
        r == IF hex THEN Digits(SubSeq(u, 3, Len(u)), 16, 0, FALSE)
             ELSE Digits(u, 10, 0, FALSE)
    IN  IF r.nan THEN NaN ELSE Num(IF neg THEN 0 - r.val ELSE r.val)

\* _attemptConnection: !(isNaN(mtu) || mtu <= 0)
\* faulty variant of MtuValid: a size of 0 is accepted
MtuValidOrZero(mtu) == ~mtu.nan /\ mtu.val >= 0

MtuValid(mtu) == ~mtu.nan /\ mtu.val > 0

(***************************************************************************)
(* State                                                                   *)
(*                                                                         *)
(* Objects of the platform are named by what the program can tell about    *)
(* them.  A characteristic object is 1 when it belongs to the link opened  *)
(* last and 2 when it belongs to an earlier link; a promise is named by a  *)
(* slot of a pool, freed when nothing can reach it any more; a field that  *)
(* still holds a freed promise, resolver or timer holds -1.                *)
(***************************************************************************)
VARIABLES
    \* fields of FrameBle
    device,                 \* this.device is set
    server,                 \* this.server is set
    txCharacteristic,       \* 0 (undefined), 1 or 2
    rxCharacteristic,       \* 0 (undefined), 1 or 2
    maxPayload,
    awaitingPrintResponse,
    awaitingDataResponse,
    printTimeoutId,         \* 0 (undefined), -1 or the promise whose timer it is
    printResponsePromise,   \* 0 (undefined), -1 or a promise
    printResolve,           \* 0 (undefined), -1 or the promise it resolves
    dataResponsePromise,
    dataResolve,
    onDataResponse,         \* "none" or the kind of registered handler
    onPrintResponse,
    onDisconnectHandler,
    \* platform
    gattConnected,          \* device.gatt.connected
    devListener,            \* handleDisconnect listens for gattserverdisconnected
    rxListeners,            \* RX objects that carry notificationHandler
    timers,                 \* running timers: [chan, p]
    promise,                \* state of each promise of the pool
    \* the connect() call in progress
    pc,
    attempt,
    numAttempts,
    lastError,
    curErr,                 \* error held by the catch block of _attemptConnection
    hsPromise,              \* promise returned by the sendLua of the handshake
    \* the sendLua / sendData calls of the application in progress
    tasks,
    \* what the caller of connect() and the platform observed
    attemptsMade,           \* calls of _attemptConnection in this connect()
    delaysWaited,           \* retry delays started in this connect()
    attemptLog,             \* what each call of _attemptConnection threw (OpenOk: nothing)
    openResult,             \* NoError (no result yet), OpenOk, or the error connect() threw
    selected,               \* requestDevice resolved in this connect()
    ev                      \* what the last step did

fields == <<device, server, txCharacteristic, rxCharacteristic>>

waiters == <<awaitingPrintResponse, awaitingDataResponse, printTimeoutId,
             printResponsePromise, printResolve, dataResponsePromise, dataResolve,
             timers, promise>>

handlers == <<onDataResponse, onPrintResponse, onDisconnectHandler>>

platform == <<gattConnected, devListener, rxListeners>>

call == <<pc, attempt, numAttempts, lastError, curErr, hsPromise>>

history == <<attemptsMade, delaysWaited, attemptLog, openResult, selected>>

vars == <<fields, maxPayload, waiters, handlers, platform, call, tasks, history, ev>>

(***************************************************************************)
(* What one step did.  cb: calls of the registered disconnect callback;    *)
(* hd: runs of handleDisconnect; wrote: length of the value written to TX  *)
(* (0: no write); ret: how a call of the application returned in this step *)
(* ("-": none did); for a send: the length len of the command or payload   *)
(* given and the bytes pre put before it in the value; for a sendMessage:  *)
(* its message code; for a notification:                                   *)
(* its value, whether the handler     *)
(* threw, the promises it resolved with their values, and the arguments    *)
(* the observers were called with.                                         *)
(***************************************************************************)
Ev(k, h, c, w) ==
    [kind |-> k, hd |-> h, cb |-> c, wrote |-> w, ret |-> "-", len |-> 0,
     pre |-> <<>>, code |-> 0, value |-> <<>>,
     threw |-> FALSE, resPrint |-> 0, resData |-> 0, resVal |-> <<>>,
     obsPrint |-> <<>>, obsData |-> <<>>]

TaskIds == 1..MaxTasks

(***************************************************************************)
(* uploadFileFromString: strings are sequences of UTF-16 code units.       *)
(***************************************************************************)
CarriageReturn == 13
Backslash == 92
Newline == 10
Tab == 9
SingleQuote == 39
DoubleQuote == 34
LetterN == 110
LetterT == 116
\* a character that no replace() of the escaping looks for
Ordinary == 97
\* a character of two bytes in UTF-8 (e with acute accent)
WideChar == 233

\* str.replace(/c/g, by) for a pattern of the single character c
RECURSIVE replace(_, _, _)
replace(str, c, by) ==
    IF str = <<>> THEN <<>>
    ELSE (IF Head(str) = c THEN by ELSE <<Head(str)>>) \o replace(Tail(str), c, by)

\* faulty variant of escapedContent: the backslashes are doubled last, so those the
\* other replacements put in are doubled too
escapedContentBackslashLast(content) ==
    replace(replace(replace(replace(replace(replace(content,
        CarriageReturn, <<>>),
        Newline, <<Backslash, LetterN>>),
        Tab, <<Backslash, LetterT>>),
        SingleQuote, <<Backslash, SingleQuote>>),
        DoubleQuote, <<Backslash, DoubleQuote>>),
        Backslash, <<Backslash, Backslash>>)

escapedContent(content) ==
    replace(replace(replace(replace(replace(replace(content,
        CarriageReturn, <<>>),
        Backslash, <<Backslash, Backslash>>),
        Newline, <<Backslash, LetterN>>),
        Tab, <<Backslash, LetterT>>),
        SingleQuote, <<Backslash, SingleQuote>>),
        DoubleQuote, <<Backslash, DoubleQuote>>)

\* faulty variant of trailingSlashes: every backslash of the chunk is counted
trailingSlashesWhole(chunk) == Len(SelectSeq(chunk, LAMBDA c : c = Backslash))

\* the for loop that counts the backslashes the chunk ends in
RECURSIVE trailingSlashes(_)
trailingSlashes(chunk) ==
    IF chunk # <<>> /\ chunk[Len(chunk)] = Backslash
    THEN 1 + trailingSlashes(SubSeq(chunk, 1, Len(chunk) - 1))
    ELSE 0

Min(a, b) == IF a < b THEN a ELSE b

\* faulty variant of substring: the characters are taken from the start of str
substringFromStart(str, from, to) == SubSeq(str, 1, Min(to, Len(str)) - from)

\* str.substring(from, to) for 0 <= from <= to
substring(str, from, to) == SubSeq(str, from + 1, Min(to, Len(str)))

\* faulty variant of Shrunk: the chunk is sent as cut
ShrunkNever(escaped, i, currentChunkSize) == currentChunkSize

\* the inner while loop: the currentChunkSize it ends with, 0 if it ends in the
\* throw of "Cannot safely chunk content"
RECURSIVE Shrunk(_, _, _)
Shrunk(escaped, i, currentChunkSize) ==
    LET chunk == substring(escaped, i, i + currentChunkSize)
    IN  IF chunk # <<>> /\ chunk[Len(chunk)] = Backslash
        THEN IF trailingSlashes(chunk) % 2 # 0
             THEN IF currentChunkSize > 1
                  THEN Shrunk(escaped, i, currentChunkSize - 1)
                  ELSE 0
             ELSE currentChunkSize
        ELSE currentChunkSize

\* the commands of an upload
OpenCommand(frameFilePath) ==
    <<102, 61, 102, 114, 97, 109, 101, 46, 102, 105, 108, 101, 46, 111, 112, 101,
      110, 40, 39>> \o frameFilePath
      \o <<39, 44, 39, 119, 39, 41, 59, 112, 114, 105, 110, 116, 40, 49, 41>>

WriteCommand(chunk) ==
    <<102, 58, 119, 114, 105, 116, 101, 40, 34>> \o chunk
      \o <<34, 41, 59, 112, 114, 105, 110, 116, 40, 49, 41>>

CloseCommand ==
    <<102, 58, 99, 108, 111, 115, 101, 40, 41, 59, 112, 114, 105, 110, 116, 40, 110,
      105, 108, 41>>

luaCommandOverhead == Len(WriteCommand(<<>>))

\* faulty variant of Sentinel: the responses are compared with "0"
SentinelZero == <<48>>

\* the response "1" that the open and write commands print
Sentinel == <<49>>

\* new TextEncoder().encode(str).length for code units below 0x800
RECURSIVE EncodedLength(_)
EncodedLength(str) ==
    IF str = <<>> THEN 0
    ELSE (IF Head(str) < 128 THEN 1 ELSE 2) + EncodedLength(Tail(str))

\* the locals of an uploadFileFromString in progress: content, escapedContent, i,
\* currentChunkSize, the await it is suspended at (open, write, close, or the close
\* before a throw) and the commands it has passed to sendLua so far
NoUpload == [on |-> FALSE, content |-> <<>>, escaped |-> <<>>, i |-> 0, size |-> 0,
             at |-> "-", out |-> <<>>]

\* the locals of a sendMessage in progress: msgCode, totalPayloadSize, sentBytes,
\* the size of the slice in the chunk awaited, maxSubsequentChunkDataSize (on: there
\* is a sendMessage), and the values it has passed to writeValueWithResponse so far
NoMsg == [on |-> FALSE, code |-> 0, total |-> 0, sent |-> 0, chunk |-> 0, cap |-> 0,
          out |-> <<>>]

\* an application call: where it is suspended, its channel, whether it awaits a
\* response, the promise it awaits, the TX object it writes to and the sendMessage
\* that made the call
IdleTask == [pc |-> "idle", chan |-> "-", aw |-> FALSE, p |-> 0, link |-> 0, m |-> NoMsg,
             u |-> NoUpload]

\* a promise: none (free slot), pending, resolved (with val) or rejected
NoPromise == [st |-> "none", val |-> <<>>]

\* faulty variant of Pending: a new promise is resolved at once, as if a message had
\* been kept for it
PendingWithMessage == [st |-> "resolved", val |-> <<>>]

Pending == [st |-> "pending", val |-> <<>>]

Timer(c, p) == [chan |-> c, p |-> p]

Init ==
    /\ device = FALSE
    /\ server = FALSE
    /\ txCharacteristic = 0
    /\ rxCharacteristic = 0
    /\ maxPayload = DefaultMaxPayload
    /\ awaitingPrintResponse = FALSE
    /\ awaitingDataResponse = FALSE
    /\ printTimeoutId = 0
    /\ printResponsePromise = 0
    /\ printResolve = 0
    /\ dataResponsePromise = 0
    /\ dataResolve = 0
    /\ onDataResponse = "none"
    /\ onPrintResponse = "none"
    /\ onDisconnectHandler = "none"
    /\ gattConnected = FALSE
    /\ devListener = 0
    /\ rxListeners = {}
    /\ timers = {}
    /\ promise = [p \in 1..MaxPromises |-> NoPromise]
    /\ pc = "idle"
    /\ attempt = 0
    /\ numAttempts = 0
    /\ lastError = NoError
    /\ curErr = NoError
    /\ hsPromise = 0
    /\ tasks = [t \in TaskIds |-> IdleTask]
    /\ attemptsMade = 0
    /\ delaysWaited = 0
    /\ attemptLog = <<>>
    /\ openResult = NoError
    /\ selected = FALSE
    /\ ev = Ev("init", 0, 0, 0)

(***************************************************************************)
(* handleDisconnect: clears the four handles and calls the registered      *)
(* disconnect callback.  CallbackRuns is the number of calls it makes.     *)
(***************************************************************************)
\* faulty variant of CallbackRuns: the callback is called twice
CallbackRunsTwice == IF onDisconnectHandler = "none" THEN 0 ELSE 2

CallbackRuns == IF onDisconnectHandler = "none" THEN 0 ELSE 1

\* faulty variant of handleDisconnect: the TX handle is kept
handleDisconnectKeepsTx(e0) ==
    /\ device' = FALSE
    /\ server' = FALSE
    /\ txCharacteristic' = txCharacteristic
    /\ rxCharacteristic' = 0
    /\ ev' = [e0 EXCEPT !.hd = 1, !.cb = CallbackRuns]

handleDisconnect(e0) ==
    /\ device' = FALSE
    /\ server' = FALSE
    /\ txCharacteristic' = 0
    /\ rxCharacteristic' = 0
    /\ ev' = [e0 EXCEPT !.hd = 1, !.cb = CallbackRuns]

(***************************************************************************)
(* connect(): the code after the retry loop.  The disconnect listener is   *)
(* removed first, so the gatt.disconnect() of the cleanup reaches no       *)
(* handler; the four handles are cleared and the error is thrown.          *)
\* removeEventListener('gattserverdisconnected', this.handleDisconnect) on a device
\* that lists handleDisconnect n times: one entry is removed, if there is one
removeEventListener(n) == IF n > 0 THEN n - 1 ELSE 0

\* addEventListener('gattserverdisconnected', this.handleDisconnect): the platform
\* does not list the same function twice for one event type
addEventListener(n) == IF n > 0 THEN n ELSE 1

(***************************************************************************)
\* faulty variant of FinalCleanup: this.device is not cleared
FinalCleanupKeepsDevice(err, e0) ==
    /\ devListener' = removeEventListener(devListener)
    /\ gattConnected' = FALSE
    /\ device' = device
    /\ server' = FALSE
    /\ txCharacteristic' = 0
    /\ rxCharacteristic' = 0
    /\ lastError' = err
    /\ openResult' = IF err # NoError THEN err ELSE ErrNoRecord
    /\ curErr' = NoError
    /\ pc' = "idle"
    /\ ev' = e0

FinalCleanup(err, e0) ==
    /\ devListener' = removeEventListener(devListener)
    /\ gattConnected' = FALSE
    /\ device' = FALSE
    /\ server' = FALSE
    /\ txCharacteristic' = 0
    /\ rxCharacteristic' = 0
    /\ lastError' = err
    /\ openResult' = IF err # NoError THEN err ELSE ErrNoRecord
    /\ curErr' = NoError
    /\ pc' = "idle"
    /\ ev' = e0

(***************************************************************************)
(* connect(): the catch block of the retry loop, entered with error e when *)
(* _attemptConnection has left this.device as dev and the link state conn. *)
(* A retryable error with attempts left starts the retry delay; anything   *)
(* else leaves the loop.                                                   *)
(***************************************************************************)
\* faulty variant of Retries: the last attempt is followed by a delay too
RetriesAlways(e) == isRetryableError(e)

\* faulty variant of Retries: every error is retried while attempts are left
RetriesAnyError(e) == attempt < numAttempts

Retries(e) == isRetryableError(e) /\ attempt < numAttempts

LoopCatch(e, dev, conn, e0) ==
    /\ attemptLog' = Append(attemptLog, e)
    /\ IF Retries(e)
       THEN /\ delaysWaited' = delaysWaited + 1
            /\ pc' = "retryDelay"
            /\ lastError' = e
            /\ curErr' = NoError
            /\ device' = dev
            /\ server' = FALSE
            /\ txCharacteristic' = 0
            /\ rxCharacteristic' = 0
            /\ gattConnected' = conn
            /\ ev' = e0
            /\ UNCHANGED <<devListener, openResult>>
       ELSE /\ delaysWaited' = delaysWaited
            /\ FinalCleanup(e, e0)

(***************************************************************************)
(* _attemptConnection: the catch block.  CatchTail is its code after the   *)
(* RX cleanup: TX is cleared, a connected link is disconnected (which      *)
(* fires gattserverdisconnected, so handleDisconnect runs when it          *)
(* listens), the server is cleared and the error is rethrown.              *)
(***************************************************************************)
\* faulty variant of CatchTail: the link is left connected
CatchTailNoDisconnect(e, e0) == LoopCatch(e, device, gattConnected, e0)

CatchTail(e, e0) ==
    IF device /\ gattConnected
    THEN IF devListener > 0
         THEN LoopCatch(e, FALSE, FALSE, [e0 EXCEPT !.hd = 1, !.cb = CallbackRuns])
         ELSE LoopCatch(e, device, FALSE, e0)
    ELSE LoopCatch(e, device, gattConnected, e0)

Catch(e, rxl, e0) ==
    IF rxCharacteristic # 0 /\ device /\ gattConnected
    THEN \* await this.rxCharacteristic.stopNotifications()
         /\ pc' = "stopNotif"
         /\ curErr' = e
         /\ rxListeners' = rxl
         /\ ev' = e0
         /\ UNCHANGED <<fields, gattConnected, devListener, lastError, attemptLog,
                        delaysWaited, openResult>>
    ELSE /\ rxListeners' = rxl \ {rxCharacteristic}
         /\ CatchTail(e, e0)

(***************************************************************************)
(* connect(): the head of the first loop iteration, reached with           *)
(* this.device set.  With numAttempts < 1 the loop body never runs.        *)
(***************************************************************************)
LoopEnter(n, e0) ==
    /\ attempt' = 1
    /\ attemptLog' = <<>>
    /\ delaysWaited' = 0
    /\ rxListeners' = rxListeners
    /\ IF n < 1
       THEN /\ attemptsMade' = 0
            /\ FinalCleanup(NoError, e0)
       ELSE \* _attemptConnection up to gatt.connect()
            /\ attemptsMade' = 1
            /\ devListener' = addEventListener(removeEventListener(devListener))
            /\ device' = TRUE
            /\ server' = FALSE
            /\ txCharacteristic' = 0
            /\ rxCharacteristic' = 0
            /\ pc' = "gattConnect"
            /\ lastError' = NoError
            /\ curErr' = NoError
            /\ openResult' = NoError
            /\ ev' = e0
            /\ UNCHANGED gattConnected

\* connect() called with numAttempts = n
\* faulty variant of NoDevice: the user is asked for a device in every connect()
NoDeviceAlways == TRUE

\* if (!this.device)
NoDevice == ~device

ConnectCall(n) ==
    /\ pc = "idle"
    /\ numAttempts' = n
    /\ hsPromise' = 0
    /\ UNCHANGED <<maxPayload, waiters, handlers, tasks>>
    /\ IF ~NoDevice
       THEN /\ selected' = FALSE
            /\ LoopEnter(n, Ev("connect", 0, 0, 0))
       ELSE \* await navigator.bluetooth.requestDevice(...)
            /\ pc' = "requestDevice"
            /\ selected' = FALSE
            /\ attempt' = 0
            /\ attemptsMade' = 0
            /\ delaysWaited' = 0
            /\ attemptLog' = <<>>
            /\ lastError' = NoError
            /\ curErr' = NoError
            /\ openResult' = NoError
            /\ ev' = Ev("connect", 0, 0, 0)
            /\ UNCHANGED <<fields, gattConnected, devListener, rxListeners>>

\* requestDevice settles
RequestDeviceDone(ok) ==
    /\ pc = "requestDevice"
    /\ UNCHANGED <<maxPayload, waiters, handlers, numAttempts, hsPromise, tasks>>
    /\ IF ok
       THEN /\ selected' = TRUE
            /\ LoopEnter(numAttempts, Ev("step", 0, 0, 0))
       ELSE /\ device' = FALSE
            /\ openResult' = ErrRequest
            /\ pc' = "idle"
            /\ ev' = Ev("step", 0, 0, 0)
            /\ UNCHANGED <<server, txCharacteristic, rxCharacteristic, gattConnected,
                           devListener, rxListeners, attempt, lastError, curErr,
                           attemptsMade, delaysWaited, attemptLog, selected>>

\* what a failing step of the try block leaves unchanged around Catch
CatchFrame ==
    UNCHANGED <<maxPayload, handlers, attempt, numAttempts, hsPromise,
                attemptsMade, selected>>

\* what a step of the try block that goes on to the next await leaves unchanged
StepFrame ==
    UNCHANGED <<maxPayload, handlers, attempt, numAttempts, lastError, curErr,
                hsPromise, history>>

\* an object of the link opened last becomes an object of an earlier link
Age(x) == IF x = 1 THEN 2 ELSE x

\* this.device.gatt.connect() settles with r
GattConnectDone(r) ==
    /\ pc = "gattConnect"
    /\ UNCHANGED waiters
    /\ IF r = NoError
       THEN /\ gattConnected' = TRUE
            /\ rxListeners' = IF gattConnected THEN rxListeners
                              ELSE {Age(x) : x \in rxListeners}
            /\ tasks' = IF gattConnected THEN tasks
                        ELSE [t \in TaskIds |-> [tasks[t] EXCEPT !.link = Age(@)]]
            /\ server' = TRUE
            /\ pc' = "getService"
            /\ ev' = Ev("step", 0, 0, 0)
            /\ UNCHANGED <<device, txCharacteristic, rxCharacteristic, maxPayload,
                           handlers, devListener, attempt, numAttempts,
                           lastError, curErr, hsPromise, history>>
       ELSE /\ tasks' = tasks
            /\ CatchFrame
            /\ Catch(r, rxListeners, Ev("step", 0, 0, 0))

\* this.server.getPrimaryService(...) settles with r
GetServiceDone(r) ==
    /\ pc = "getService"
    /\ UNCHANGED <<waiters, tasks>>
    /\ IF r = NoError
       THEN /\ gattConnected
            /\ pc' = "getTx"
            /\ ev' = Ev("step", 0, 0, 0)
            /\ UNCHANGED <<fields, maxPayload, handlers, platform, attempt, numAttempts,
                           lastError, curErr, hsPromise, history>>
       ELSE /\ CatchFrame
            /\ Catch(r, rxListeners, Ev("step", 0, 0, 0))

\* service.getCharacteristic(TX) settles with r
GetTxDone(r) ==
    /\ pc = "getTx"
    /\ UNCHANGED <<waiters, tasks>>
    /\ IF r = NoError
       THEN /\ gattConnected
            /\ txCharacteristic' = 1
            /\ pc' = "getRx"
            /\ ev' = Ev("step", 0, 0, 0)
            /\ UNCHANGED <<device, server, rxCharacteristic, maxPayload, handlers,
                           platform, attempt, numAttempts, lastError, curErr, hsPromise,
                           history>>
       ELSE /\ CatchFrame
            /\ Catch(r, rxListeners, Ev("step", 0, 0, 0))

\* service.getCharacteristic(RX) settles with r; startNotifications() is called
GetRxDone(r) ==
    /\ pc = "getRx"
    /\ UNCHANGED <<waiters, tasks>>
    /\ IF r = NoError
       THEN /\ gattConnected
            /\ rxCharacteristic' = 1
            /\ pc' = "startNotif"
            /\ ev' = Ev("step", 0, 0, 0)
            /\ UNCHANGED <<device, server, txCharacteristic, maxPayload, handlers,
                           platform, attempt, numAttempts, lastError, curErr, hsPromise,
                           history>>
       ELSE /\ CatchFrame
            /\ Catch(r, rxListeners, Ev("step", 0, 0, 0))

(***************************************************************************)
(* The waiter slots.  The operators below work on a record of the waiter   *)
(* fields, so that the steps of one task compose; SetWaiters stores it.    *)
(***************************************************************************)
W0 ==
    [ap |-> awaitingPrintResponse, ad |-> awaitingDataResponse,
     tid |-> printTimeoutId, prp |-> printResponsePromise, pres |-> printResolve,
     drp |-> dataResponsePromise, dres |-> dataResolve,
     tm |-> timers, pr |-> promise]

SetWaiters(w) ==
    /\ awaitingPrintResponse' = w.ap
    /\ awaitingDataResponse' = w.ad
    /\ printTimeoutId' = w.tid
    /\ printResponsePromise' = w.prp
    /\ printResolve' = w.pres
    /\ dataResponsePromise' = w.drp
    /\ dataResolve' = w.dres
    /\ timers' = w.tm
    /\ promise' = w.pr

\* the pool has a free slot; new Promise(...) takes the first one
HasFree(w) == \E q \in DOMAIN w.pr : w.pr[q].st = "none"

NewId(w) ==
    CHOOSE q \in DOMAIN w.pr :
        w.pr[q].st = "none" /\ \A r \in DOMAIN w.pr : r < q => w.pr[r].st # "none"

\* faulty variant of RegisterPrint: the timer in printTimeoutId keeps running
RegisterPrintKeepsTimer(w) ==
    LET n == NewId(w)
    IN  [w EXCEPT !.tm = w.tm \cup {Timer("print", n)},
                  !.ap = TRUE, !.pres = n, !.tid = n, !.prp = n, !.pr[n] = Pending]

\* sendLua, awaitPrint: the timer in printTimeoutId is cleared, the slot is taken,
\* a new promise with its resolver and its timer is stored
RegisterPrint(w) ==
    LET n == NewId(w)
    IN  [w EXCEPT !.tm = (w.tm \ {Timer("print", w.tid)}) \cup {Timer("print", n)},
                  !.ap = TRUE, !.pres = n, !.tid = n, !.prp = n, !.pr[n] = Pending]

\* sendData, awaitData: the timer is local to the call, no timer is cleared
RegisterData(w) ==
    LET n == NewId(w)
    IN  [w EXCEPT !.tm = w.tm \cup {Timer("data", n)},
                  !.ad = TRUE, !.dres = n, !.drp = n, !.pr[n] = Pending]

\* sendLua, .finally: the timer in printTimeoutId is cleared
FinallyPrint(w) ==
    IF w.tid # 0
    THEN [w EXCEPT !.tm = w.tm \ {Timer("print", w.tid)}, !.tid = 0]
    ELSE w

\* faulty variant of FinallyData: the timer keeps running
FinallyDataKeepsTimer(w, p) == w

\* sendData, .finally: the timer of the call of promise p is cleared
FinallyData(w, p) == [w EXCEPT !.tm = w.tm \ {Timer("data", p)}]

\* the resolver r settles a promise when called
Settles(w, r) == r > 0 /\ w.pr[r].st = "pending"

\* the promise a print (data) message resolves now, 0 when there is none
PrintTarget(w) == IF w.ap /\ Settles(w, w.pres) THEN w.pres ELSE 0

DataTarget(w) == IF w.ad /\ Settles(w, w.dres) THEN w.dres ELSE 0

\* notificationHandler, print branch: if (awaitingPrintResponse && printResolve)
ResolvePrint(w, val) ==
    IF w.ap /\ w.pres # 0
    THEN IF Settles(w, w.pres)
         THEN FinallyPrint([w EXCEPT !.ap = FALSE,
                                     !.pr[w.pres] = [st |-> "resolved", val |-> val]])
         ELSE [w EXCEPT !.ap = FALSE]
    ELSE w

\* notificationHandler, data branch: if (awaitingDataResponse && dataResolve)
ResolveData(w, val) ==
    IF w.ad /\ w.dres # 0
    THEN IF Settles(w, w.dres)
         THEN FinallyData([w EXCEPT !.ad = FALSE,
                                    !.pr[w.dres] = [st |-> "resolved", val |-> val]],
                          w.dres)
         ELSE [w EXCEPT !.ad = FALSE]
    ELSE w

\* the promise the timer t fails now, 0 when it fails none
TimerTarget(w, t) ==
    IF (IF t.chan = "print" THEN w.ap ELSE w.ad) /\ w.pr[t.p].st = "pending"
    THEN t.p ELSE 0

\* faulty variant of Expire: the promise is rejected and the slot stays taken
ExpireKeepsSlot(w, t) ==
    LET w1 == [w EXCEPT !.tm = w.tm \ {t}]
    IN  IF w.pr[t.p].st = "pending"
        THEN [w1 EXCEPT !.pr[t.p] = [st |-> "rejected", val |-> <<>>]]
        ELSE w1

\* the setTimeout callback of sendLua (print) and of sendData (data)
Expire(w, t) ==
    LET w1 == [w EXCEPT !.tm = w.tm \ {t}]
        rej(x) == [x EXCEPT !.pr[t.p] = [st |-> "rejected", val |-> <<>>]]
    IN  IF t.chan = "print"
        THEN IF w1.ap
             THEN LET w2 == [w1 EXCEPT !.ap = FALSE, !.pres = 0]
                  IN  IF w.pr[t.p].st = "pending" THEN FinallyPrint(rej(w2)) ELSE w2
             ELSE w1
        ELSE IF w1.ad
             THEN LET w2 == [w1 EXCEPT !.ad = FALSE, !.dres = 0]
                  IN  IF w.pr[t.p].st = "pending" THEN FinallyData(rej(w2), t.p) ELSE w2
             ELSE w1

(***************************************************************************)
(* Who can still reach a promise.  A call that registered a waiter and     *)
(* awaits its write returns the promise stored in the field of its channel *)
(* when the write is done; a call that returned a pending promise awaits   *)
(* it; a resolver in use and a running timer settle theirs.                *)
(***************************************************************************)
\* promises held by the handshake of connect() at pcv
HsRefs(pcv, hs, prp) ==
    IF pcv = "mtuWrite" THEN {prp} ELSE IF pcv = "mtuWait" THEN {hs} ELSE {}

\* promises held by the calls of the application
TaskRefs(tks, prp, drp) ==
    {tks[t].p : t \in {u \in TaskIds : tks[u].pc = "wait"}}
      \cup {prp : t \in {u \in TaskIds : tks[u].pc = "write" /\ tks[u].aw
                                           /\ tks[u].chan = "print"}}
      \cup {drp : t \in {u \in TaskIds : tks[u].pc = "write" /\ tks[u].aw
                                           /\ tks[u].chan = "data"}}

\* the slots nothing reaches are freed
Collect(w, held) ==
    LET live(q) == \/ q \in held
                   \/ Timer("print", q) \in w.tm
                   \/ Timer("data", q) \in w.tm
                   \/ w.ap /\ w.pres = q /\ w.pr[q].st = "pending"
                   \/ w.ad /\ w.dres = q /\ w.pr[q].st = "pending"
        ref(x) == IF x > 0 /\ ~live(x) THEN -1 ELSE x
    IN  [w EXCEPT !.pr = [q \in DOMAIN w.pr |-> IF live(q) THEN w.pr[q] ELSE NoPromise],
                  !.tid = IF w.tid # 0 /\ Timer("print", w.tid) \notin w.tm
                          THEN -1 ELSE w.tid,
                  !.prp = ref(w.prp), !.pres = ref(w.pres),
                  !.drp = ref(w.drp), !.dres = ref(w.dres)]

\* the calls awaiting promise q return
Wake(tks, q) ==
    [t \in TaskIds |-> IF tks[t].pc = "wait" /\ tks[t].p = q THEN IdleTask ELSE tks[t]]

\* what the calls awaiting promise q return with: r when there is such a call
Woken(tks, q, r) ==
    IF \E t \in TaskIds : tks[t].pc = "wait" /\ tks[t].p = q THEN r ELSE "-"

(***************************************************************************)
(* transmit: the two checks made before writeValueWithResponse.            *)
(***************************************************************************)
\* faulty variant of TransmitError: the TX handle is not tested
TransmitErrorAnyTx(tx, len, mp) == IF len > mp THEN ErrTooLarge ELSE NoError

TransmitError(tx, len, mp) ==
    IF tx = 0 THEN ErrNoTx
    ELSE IF len > mp THEN ErrTooLarge
    ELSE NoError

\* faulty variant of getMaxPayload: one byte more than the packet holds
getMaxPayloadLoose(isLua) == IF isLua THEN maxPayload + 1 ELSE maxPayload - 1

\* faulty variant of getMaxPayload: a data payload is one byte shorter than it may be
getMaxPayloadTight(isLua) == IF isLua THEN maxPayload ELSE maxPayload - 2

\* faulty variant of getMaxPayload: no room is left for the prefix of sendData
getMaxPayloadNoPrefix(isLua) == maxPayload

\* getMaxPayload(isLua)
getMaxPayload(isLua) == IF isLua THEN maxPayload ELSE maxPayload - 1

\* new Uint8Array([1]): the bytes sendData puts before the payload
DataPrefix == <<1>>

(***************************************************************************)
(* sendData up to the await of the write, on the waiter fields w: how it   *)
(* returns ("-": it awaits the write), the waiter fields it leaves, the    *)
(* length of the value written, whether it failed before the waiter was    *)
(* registered (early), and whether the pool had a slot for the promise.    *)
(***************************************************************************)
SendDataStart(w, len, aw) ==
    LET combinedData == Len(DataPrefix) + len
        te == TransmitError(txCharacteristic, combinedData, maxPayload)
        res(r, x, n, e) == [ret |-> r, w |-> x, wrote |-> n, early |-> e, ok |-> TRUE]
    IN  IF txCharacteristic = 0 THEN res("noTx", w, 0, TRUE)
        ELSE IF len > getMaxPayload(FALSE) THEN res("tooLarge", w, 0, TRUE)
        ELSE IF aw /\ ~HasFree(w) THEN [res("-", w, 0, FALSE) EXCEPT !.ok = FALSE]
        ELSE LET w1 == IF aw THEN RegisterData(w) ELSE w
             IN  IF te # NoError THEN res("tooLarge", w1, 0, FALSE)
                 ELSE res("-", w1, combinedData, FALSE)


\* the payload of n bytes given to sendMessage: its bytes tell their positions apart
Payload(n) == [i \in 1..n |-> i % 251]

\* faulty variant of Slice: every slice is taken from the start of the payload
SliceFromStart(payload, from, n) == SubSeq(payload, 1, n)

\* payload.subarray(from, from + n)
Slice(payload, from, n) == SubSeq(payload, from + 1, from + n)

\* a number stored in an element of a Uint8Array
Uint8(n) == n % 256

(***************************************************************************)
(* The call of task t receives the value of the promise it awaited.  A     *)
(* sendData of the application returns it.  A sendMessage adds the slice   *)
(* to sentBytes and returns when the payload is sent; otherwise it calls   *)
(* sendData with the next chunk, the message code and the next slice.      *)
(***************************************************************************)
Continue(tks, w, t) ==
    LET m == tks[t].m
        idle == [tks EXCEPT ![t] = IdleTask]
        sentBytes == m.sent + m.chunk
        currentChunkActualDataSize == Min(m.cap, m.total - sentBytes)
        w1 == Collect(w, HsRefs(pc, hsPromise, w.prp) \cup TaskRefs(idle, w.prp, w.drp))
        subsequentPacketDataForSendData ==
            <<Uint8(m.code)>> \o Slice(Payload(m.total), sentBytes,
                                       currentChunkActualDataSize)
        res(x, y, n, r, o) == [tks |-> x, w |-> y, wrote |-> n, ret |-> r, ok |-> o,
                               code |-> m.code, len |-> m.total]
        sent(s, p) ==
            IF s.ret # "-" \/ ~s.ok THEN res(idle, s.w, 0, s.ret, s.ok)
            ELSE res([tks EXCEPT ![t] = [pc |-> "write", chan |-> "data", aw |-> TRUE,
                                         p |-> 0, link |-> txCharacteristic,
                                         m |-> [m EXCEPT
                                                  !.sent = sentBytes,
                                                  !.chunk = currentChunkActualDataSize,
                                                  !.out = Append(m.out, DataPrefix \o p)],
                                         u |-> NoUpload]],
                     s.w, s.wrote, "-", TRUE)
    IN  IF ~m.on THEN res(idle, w, 0, "value", TRUE)
        ELSE IF sentBytes >= m.total THEN res(idle, w, 0, "sent", TRUE)
        ELSE CHOOSE r \in {sent(s, p) :
                             s \in {SendDataStart(w1, Len(subsequentPacketDataForSendData),
                                                  TRUE)},
                             p \in {subsequentPacketDataForSendData}} : TRUE

\* the calls awaiting promise q, from task k on, receive its value; wrote: the
\* bytes they write, ret: how the first call that returns does, code and len: the
\* arguments of the sendMessage it belongs to
RECURSIVE Resolved(_, _, _, _)
Resolved(tks, w, q, k) ==
    IF k > MaxTasks
    THEN [tks |-> tks, w |-> w, wrote |-> 0, ret |-> "-", ok |-> TRUE,
          code |-> 0, len |-> 0]
    ELSE IF tks[k].pc = "wait" /\ tks[k].p = q
    THEN LET both(a, b) ==
                 [tks |-> b.tks, w |-> b.w, wrote |-> a.wrote + b.wrote,
                  ret |-> IF a.ret # "-" THEN a.ret ELSE b.ret, ok |-> a.ok /\ b.ok,
                  code |-> IF a.ret # "-" THEN a.code ELSE b.code,
                  len |-> IF a.ret # "-" THEN a.len ELSE b.len]
         IN  CHOOSE r \in UNION {{both(a, b) : b \in {Resolved(a.tks, a.w, q, k + 1)}} :
                                    a \in {Continue(tks, w, k)}} : TRUE
    ELSE Resolved(tks, w, q, k + 1)

(***************************************************************************)
(* _attemptConnection, after the handshake response: the text is parsed,   *)
(* a valid size is stored and connect() returns; otherwise the attempt     *)
(* fails.                                                                  *)
(***************************************************************************)
HsContinue(text, e0) ==
    LET mtu == parseInt(text)
    IN  IF MtuValid(mtu)
        THEN /\ maxPayload' = mtu.val
             /\ openResult' = OpenOk
             /\ attemptLog' = Append(attemptLog, OpenOk)
             /\ pc' = "idle"
             /\ ev' = e0
             /\ UNCHANGED <<fields, gattConnected, devListener, rxListeners, lastError,
                            curErr, delaysWaited>>
        ELSE /\ maxPayload' = maxPayload
             /\ Catch(ErrBadMtu, rxListeners, e0)

\* startNotifications() settles with r; the listener is added and the break signal
\* is written
StartNotifDone(r) ==
    /\ pc = "startNotif"
    /\ UNCHANGED <<waiters, tasks>>
    /\ LET e0 == Ev("step", 0, 0, 0)
           rxl == rxListeners \cup {rxCharacteristic}
           te == TransmitError(txCharacteristic, SignalLen, maxPayload)
       IN  IF r = NoError
           THEN /\ gattConnected
                /\ IF rxCharacteristic = 0
                   THEN CatchFrame /\ Catch(ErrUndefinedRx, rxListeners, e0)
                   ELSE IF te # NoError
                   THEN CatchFrame /\ Catch(te, rxl, e0)
                   ELSE /\ pc' = "breakWrite"
                        /\ rxListeners' = rxl
                        /\ ev' = Ev("step", 0, 0, SignalLen)
                        /\ StepFrame
                        /\ UNCHANGED <<fields, gattConnected, devListener>>
           ELSE CatchFrame /\ Catch(r, rxListeners, e0)

\* the write of the break signal settles with r; the settle delay starts
BreakWriteDone(r) ==
    /\ pc = "breakWrite"
    /\ UNCHANGED <<waiters, tasks>>
    /\ IF r = NoError
       THEN /\ gattConnected
            /\ pc' = "breakDelay"
            /\ ev' = Ev("step", 0, 0, 0)
            /\ StepFrame
            /\ UNCHANGED <<fields, platform>>
       ELSE CatchFrame /\ Catch(r, rxListeners, Ev("step", 0, 0, 0))

\* the settle delay is over: sendLua("print(frame.bluetooth.max_length())", awaitPrint)
BreakDelayDone ==
    /\ pc = "breakDelay"
    /\ UNCHANGED tasks
    /\ LET e0 == Ev("step", 0, 0, 0)
           te == TransmitError(txCharacteristic, MtuQueryLen, maxPayload)
           w == RegisterPrint(W0)
       IN  IF MtuQueryLen > maxPayload
           THEN /\ UNCHANGED waiters
                /\ CatchFrame
                /\ Catch(ErrTooLarge, rxListeners, e0)
           ELSE /\ HasFree(W0)
                /\ IF te # NoError
                   THEN /\ SetWaiters(Collect(w, TaskRefs(tasks, w.prp, w.drp)))
                        /\ CatchFrame
                        /\ Catch(te, rxListeners, e0)
                   ELSE /\ SetWaiters(Collect(w, {w.prp} \cup TaskRefs(tasks, w.prp, w.drp)))
                        /\ pc' = "mtuWrite"
                        /\ ev' = Ev("step", 0, 0, MtuQueryLen)
                        /\ StepFrame
                        /\ UNCHANGED <<fields, platform>>

\* the write of the size query settles with r; sendLua returns
\* this.printResponsePromise
MtuWriteDone(r) ==
    /\ pc = "mtuWrite"
    /\ UNCHANGED tasks
    /\ LET e0 == Ev("step", 0, 0, 0)
           q == printResponsePromise
           held == TaskRefs(tasks, printResponsePromise, dataResponsePromise)
       IN  IF r = NoError
           THEN /\ gattConnected
                /\ IF q > 0 /\ promise[q].st = "pending"
                   THEN /\ pc' = "mtuWait"
                        /\ hsPromise' = q
                        /\ ev' = e0
                        /\ SetWaiters(Collect(W0, {q} \cup held))
                        /\ UNCHANGED <<fields, platform, maxPayload, handlers, attempt,
                                       numAttempts, lastError, curErr, history>>
                   ELSE /\ SetWaiters(Collect(W0, held))
                        /\ UNCHANGED <<handlers, attempt, numAttempts,
                                       hsPromise, attemptsMade, selected>>
                        /\ IF q > 0 /\ promise[q].st = "resolved"
                           THEN HsContinue(promise[q].val, e0)
                           ELSE /\ maxPayload' = maxPayload
                                /\ Catch(ErrTimeout, rxListeners, e0)
           ELSE /\ SetWaiters(Collect(W0, held))
                /\ CatchFrame
                /\ Catch(r, rxListeners, e0)

\* stopNotifications() of the catch block settles (its failure is swallowed)
StopNotifDone ==
    /\ pc = "stopNotif"
    /\ UNCHANGED <<waiters, tasks>>
    /\ CatchFrame
    /\ LET e0 == Ev("step", 0, 0, 0)
       IN  IF rxCharacteristic = 0
           THEN \* this.rxCharacteristic.removeEventListener throws
                /\ rxListeners' = rxListeners
                /\ LoopCatch(ErrUndefinedRx, device, gattConnected, e0)
           ELSE /\ rxListeners' = rxListeners \ {rxCharacteristic}
                /\ CatchTail(curErr, e0)

\* faulty variant of DeviceGone: the loop never looks at this.device
DeviceGoneIgnored == FALSE

\* the head of the retry loop: handleDisconnect has cleared this.device
DeviceGone == ~device

\* the retry delay is over: the next loop iteration
RetryDelayDone ==
    /\ pc = "retryDelay"
    /\ attempt' = attempt + 1
    /\ UNCHANGED <<maxPayload, waiters, handlers, rxListeners, numAttempts,
                   hsPromise, tasks, delaysWaited, attemptLog, selected>>
    /\ LET e0 == Ev("step", 0, 0, 0)
       IN  IF DeviceGone
           THEN /\ attemptsMade' = attemptsMade
                /\ FinalCleanup(IF lastError = NoError THEN ErrExternal ELSE lastError, e0)
           ELSE /\ attemptsMade' = attemptsMade + 1
                /\ server' = FALSE
                /\ txCharacteristic' = 0
                /\ rxCharacteristic' = 0
                /\ pc' = "gattConnect"
                /\ ev' = e0
                /\ UNCHANGED <<device, gattConnected, devListener, lastError, curErr,
                               openResult>>

(***************************************************************************)
(* Disconnects                                                             *)
(***************************************************************************)
\* the link is lost: gattserverdisconnected is fired on the device
ExternalDisconnect ==
    /\ gattConnected
    /\ gattConnected' = FALSE
    /\ IF devListener > 0
       THEN handleDisconnect(Ev("linkLoss", 0, 0, 0))
       ELSE /\ ev' = Ev("linkLoss", 0, 0, 0)
            /\ UNCHANGED fields
    /\ UNCHANGED <<maxPayload, waiters, handlers, devListener, rxListeners,
                   call, tasks, history>>

\* disconnect()
Disconnect ==
    /\ IF device /\ gattConnected
       THEN /\ gattConnected' = FALSE
            /\ IF devListener > 0
               THEN handleDisconnect(Ev("disconnect", 0, 0, 0))
               ELSE /\ ev' = Ev("disconnect", 0, 0, 0)
                    /\ UNCHANGED fields
       ELSE /\ gattConnected' = gattConnected
            /\ handleDisconnect(Ev("disconnect", 0, 0, 0))
    /\ UNCHANGED <<maxPayload, waiters, handlers, devListener, rxListeners,
                   call, tasks, history>>

\* setDataResponseHandler, setPrintResponseHandler, setDisconnectHandler
SetDataResponseHandler(h) ==
    /\ onDataResponse # h
    /\ onDataResponse' = h
    /\ ev' = Ev("step", 0, 0, 0)
    /\ UNCHANGED <<fields, maxPayload, waiters, onPrintResponse, onDisconnectHandler,
                   platform, call, tasks, history>>

SetPrintResponseHandler(h) ==
    /\ onPrintResponse # h
    /\ onPrintResponse' = h
    /\ ev' = Ev("step", 0, 0, 0)
    /\ UNCHANGED <<fields, maxPayload, waiters, onDataResponse, onDisconnectHandler,
                   platform, call, tasks, history>>

SetDisconnectHandler(h) ==
    /\ onDisconnectHandler # h
    /\ onDisconnectHandler' = h
    /\ ev' = Ev("step", 0, 0, 0)
    /\ UNCHANGED <<fields, maxPayload, waiters, onDataResponse, onPrintResponse,
                   platform, call, tasks, history>>

(***************************************************************************)
(* notificationHandler, with the microtasks it queues: the .finally of a   *)
(* resolved promise and the continuation of the call awaiting it.          *)
(***************************************************************************)
\* the event record of a notification
EvNotify(value, rp, rd, rv, op, od) ==
    [kind |-> "notify", hd |-> 0, cb |-> 0, wrote |-> 0, len |-> 0, pre |-> <<>>,
     code |-> 0,
     ret |-> Woken(tasks, rp + rd, "value"), value |-> value,
     threw |-> FALSE, resPrint |-> rp, resData |-> rd, resVal |-> rv, obsPrint |-> op, obsData |-> od]

\* faulty variant of IsDataResponse: every message is taken for a print response
IsDataResponseNever(value) == FALSE

\* faulty variant of IsDataResponse: every message is taken for a data response
IsDataResponseAlways(value) == TRUE

\* value.getUint8(0) === 1
IsDataResponse(value) == Head(value) = DataTag

\* faulty variant of ObserverArgs: the observer is skipped when a waiter was resolved
ObserverArgsUnlessWaiter(h, target, val) ==
    IF h # "none" /\ target = 0 THEN <<val>> ELSE <<>>

\* if (this.onXResponse) this.onXResponse(val): the arguments of the calls made
ObserverArgs(h, target, val) == IF h # "none" THEN <<val>> ELSE <<>>

\* const result = this.onXResponse(val) is not inside a try: an observer that throws
\* when called ends the handler with its exception; the promise an observer returns
\* gets .catch(console.error), so its rejection ends nothing
ObserverThrows(h, args) == h = "throws" /\ args # <<>>

\* if (!value || value.buffer.byteLength === 0) return
Dropped(value) == Len(value) = 0

\* the handler returns without a change of state
Ignore(e0) ==
    /\ ev' = e0
    /\ UNCHANGED <<fields, maxPayload, waiters, gattConnected, devListener,
                   rxListeners, pc, lastError, curErr, hsPromise, tasks,
                   delaysWaited, attemptLog, openResult>>

\* the two branches of the handler
\* sendLua(str, {awaitPrint: true}) up to its await of the write, called by a
\* continuation, for a command of len bytes: the error it throws ("-": none), the
\* waiter fields after it and the length written (ok: a promise slot was free)
SendLuaStart(w, len) ==
    LET te == TransmitError(txCharacteristic, len, maxPayload)
        res(r, x, n) == [ret |-> r, w |-> x, wrote |-> n, ok |-> TRUE]
    IN  IF len > getMaxPayload(TRUE) THEN res("tooLarge", w, 0)
        ELSE IF ~HasFree(w) THEN [res("-", w, 0) EXCEPT !.ok = FALSE]
        ELSE IF te # NoError
             THEN res(IF te = ErrNoTx THEN "noTx" ELSE "tooLarge", RegisterPrint(w), 0)
             ELSE res("-", RegisterPrint(w), len)

\* the upload of task t passes command to sendLua, with u its locals at the await
UploadSend(tks, w, t, u, command) ==
    LET idle == [tks EXCEPT ![t] = IdleTask]
        w1 == Collect(w, HsRefs(pc, hsPromise, w.prp) \cup TaskRefs(idle, w.prp, w.drp))
        res(x, y, n, r, o) == [tks |-> x, w |-> y, wrote |-> n, ret |-> r, ok |-> o,
                               code |-> 0, len |-> EncodedLength(command)]
        sent(s) ==
            IF s.ret # "-" \/ ~s.ok THEN res(idle, s.w, 0, s.ret, s.ok)
            ELSE res([tks EXCEPT ![t] = [pc |-> "write", chan |-> "print", aw |-> TRUE,
                                         p |-> 0, link |-> txCharacteristic,
                                         m |-> NoMsg,
                                         u |-> [u EXCEPT
                                                  !.out = Append(u.out, command)]]],
                     s.w, s.wrote, "-", TRUE)
    IN  CHOOSE r \in {sent(s) : s \in {SendLuaStart(w1, EncodedLength(command))}} : TRUE

\* uploadFileFromString from the top of its outer while loop, with i characters of
\* the escaped content written
UploadLoop(tks, w, t, i) ==
    LET u == tks[t].u
        maxChunkSize == getMaxPayload(TRUE) - luaCommandOverhead
        currentChunkSize ==
            Shrunk(u.escaped, i, Min(maxChunkSize, Len(u.escaped) - i))
    IN  IF i >= Len(u.escaped)
        THEN UploadSend(tks, w, t, [u EXCEPT !.i = i, !.size = 0, !.at = "close"],
                        CloseCommand)
        ELSE IF currentChunkSize = 0
        THEN UploadSend(tks, w, t, [u EXCEPT !.i = i, !.size = 0,
                                             !.at = "closeChunking"], CloseCommand)
        ELSE UploadSend(tks, w, t, [u EXCEPT !.i = i, !.size = currentChunkSize,
                                             !.at = "write"],
                        WriteCommand(substring(u.escaped, i, i + currentChunkSize)))

\* uploadFileFromString of task t goes on after the await whose sendLua returned
\* text
UploadContinue(tks, w, t, text) ==
    LET u == tks[t].u
        maxChunkSize == getMaxPayload(TRUE) - luaCommandOverhead
        thrown(r) == [tks |-> [tks EXCEPT ![t] = IdleTask], w |-> w, wrote |-> 0,
                      ret |-> r, ok |-> TRUE, code |-> 0, len |-> 0]
    IN  IF u.at = "open"
        THEN IF text # Sentinel THEN thrown("openFailed")
             ELSE IF maxChunkSize <= 0 THEN thrown("tooSmall")
             ELSE UploadLoop(tks, w, t, 0)
        ELSE IF u.at = "write"
        THEN IF text # Sentinel
             THEN UploadSend(tks, w, t, [u EXCEPT !.at = "closeWrite"], CloseCommand)
             ELSE UploadLoop(tks, w, t, u.i + u.size)
        ELSE IF u.at = "closeChunking" THEN thrown("chunkingError")
        ELSE IF u.at = "closeWrite" THEN thrown("writeError")
        ELSE thrown("uploaded")

\* the calls that await the text promise q go on with its value text: a sendLua
\* returns it, an uploadFileFromString runs to its next await
PrintResolved(tks, w, q, text) ==
    IF \E t \in TaskIds : tks[t].pc = "wait" /\ tks[t].p = q /\ tks[t].u.on
    THEN LET t == CHOOSE k \in TaskIds :
                      tks[k].pc = "wait" /\ tks[k].p = q /\ tks[k].u.on
             rest == [k \in TaskIds |-> IF k = t THEN tks[k] ELSE Wake(tks, q)[k]]
         IN  CHOOSE r \in {UploadContinue(x, w, t, text) : x \in {rest}} : TRUE
    ELSE [tks |-> Wake(tks, q), w |-> w, wrote |-> 0, ret |-> Woken(tks, q, "value"),
          ok |-> TRUE, code |-> 0, len |-> 0]

Dispatch(value) ==
    IF IsDataResponse(value)
    THEN LET actualData == Tail(value)
             q == DataTarget(W0)
         IN  \E r \in {Resolved(tasks, ResolveData(W0, actualData), q, 1)} :
             /\ r.ok
             /\ SetWaiters(Collect(r.w, HsRefs(pc, hsPromise, r.w.prp)
                                          \cup TaskRefs(r.tks, r.w.prp, r.w.drp)))
             /\ tasks' = r.tks
             /\ ev' = [EvNotify(value, 0, q, IF q # 0 THEN actualData ELSE <<>>, <<>>,
                                ObserverArgs(onDataResponse, q, actualData))
                          EXCEPT !.ret = r.ret, !.wrote = r.wrote,
                                 !.code = r.code, !.len = r.len,
                                 !.pre = IF r.wrote > 0 THEN DataPrefix ELSE <<>>,
                                 !.threw = ObserverThrows(onDataResponse,
                                     ObserverArgs(onDataResponse, q, actualData))]
             /\ UNCHANGED <<fields, maxPayload, gattConnected, devListener,
                            rxListeners, pc, lastError, curErr, hsPromise,
                            delaysWaited, attemptLog, openResult>>
    ELSE LET decodedString == TextDecode(value)
             q == PrintTarget(W0)
         IN  \E r \in {PrintResolved(tasks, ResolvePrint(W0, decodedString), q,
                                     decodedString)} :
             LET w == r.w
                 tks == r.tks
                 e0 == [EvNotify(value, q, 0, IF q # 0 THEN decodedString ELSE <<>>,
                                 ObserverArgs(onPrintResponse, q, decodedString), <<>>)
                           EXCEPT !.ret = r.ret, !.wrote = r.wrote, !.len = r.len,
                                  !.threw = ObserverThrows(onPrintResponse,
                                      ObserverArgs(onPrintResponse, q, decodedString))]
             IN
             /\ r.ok
             /\ tasks' = tks
             /\ IF q # 0 /\ pc = "mtuWait" /\ hsPromise = q
                THEN /\ SetWaiters(Collect(w, TaskRefs(tks, w.prp, w.drp)))
                     /\ hsPromise' = 0
                     /\ HsContinue(decodedString, e0)
                ELSE /\ SetWaiters(Collect(w, HsRefs(pc, hsPromise, w.prp)
                                                \cup TaskRefs(tks, w.prp, w.drp)))
                     /\ ev' = e0
                     /\ UNCHANGED <<fields, maxPayload, gattConnected, devListener,
                                    rxListeners, pc, lastError, curErr, hsPromise,
                                    delaysWaited, attemptLog, openResult>>

Notify(value) ==
    /\ gattConnected
    /\ 1 \in rxListeners
    /\ UNCHANGED <<handlers, attempt, numAttempts, attemptsMade, selected>>
    /\ IF Dropped(value)
       THEN Ignore(EvNotify(value, 0, 0, <<>>, <<>>, <<>>))
       ELSE Dispatch(value)

(***************************************************************************)
(* notificationHandler as src/FrameBle.ts has it: the value is tested only *)
(* for being there, which the value of a notification always is, and       *)
(* getUint8(0) throws a RangeError on a value without bytes.               *)
(***************************************************************************)
NotifyFrameBleTs(value) ==
    /\ gattConnected
    /\ 1 \in rxListeners
    /\ UNCHANGED <<handlers, attempt, numAttempts, attemptsMade, selected>>
    /\ IF Len(value) = 0
       THEN Ignore([EvNotify(value, 0, 0, <<>>, <<>>, <<>>) EXCEPT !.threw = TRUE])
       ELSE Dispatch(value)

(***************************************************************************)
(* A timer started by an awaited call fires.                               *)
(***************************************************************************)
TimerFire(t) ==
    /\ t \in timers
    /\ LET q == TimerTarget(W0, t)
           w == Expire(W0, t)
           tks == Wake(tasks, q)
           e0 == [Ev("timer", 0, 0, 0) EXCEPT !.resPrint = IF t.chan = "print" THEN q ELSE 0,
                                              !.resData = IF t.chan = "data" THEN q ELSE 0,
                                              !.ret = Woken(tasks, q, "timeout")]
       IN  /\ tasks' = tks
           /\ UNCHANGED <<handlers, attempt, numAttempts, attemptsMade, selected,
                          maxPayload>>
           /\ IF q # 0 /\ pc = "mtuWait" /\ hsPromise = q
              THEN /\ SetWaiters(Collect(w, TaskRefs(tks, w.prp, w.drp)))
                   /\ hsPromise' = 0
                   /\ Catch(ErrTimeout, rxListeners, e0)
              ELSE /\ SetWaiters(Collect(w, HsRefs(pc, hsPromise, w.prp)
                                              \cup TaskRefs(tks, w.prp, w.drp)))
                   /\ ev' = e0
                   /\ UNCHANGED <<fields, gattConnected, devListener, rxListeners, pc,
                                  lastError, curErr, hsPromise, delaysWaited, attemptLog,
                                  openResult>>

(***************************************************************************)
(* sendLua and sendData called by the application.                         *)
(***************************************************************************)
TaskFrame ==
    UNCHANGED <<fields, maxPayload, handlers, platform, call, history>>

\* sendLua(str, {awaitPrint: aw}) with an encoded length of len bytes, up to the
\* await of the write
SendLuaCall(t, len, aw) ==
    /\ pc = "idle"
    /\ tasks[t].pc = "idle"
    /\ TaskFrame
    /\ LET te == TransmitError(txCharacteristic, len, maxPayload)
           w == IF aw THEN RegisterPrint(W0) ELSE W0
           tks(x) == [tasks EXCEPT ![t] = x]
           e0(r, n) == [Ev("sendLua", 0, 0, n) EXCEPT !.ret = r, !.len = len]
           run == [pc |-> "write", chan |-> "print", aw |-> aw, p |-> 0,
                   link |-> txCharacteristic, m |-> NoMsg, u |-> NoUpload]
       IN  IF len > getMaxPayload(TRUE)
           THEN /\ tasks' = tks(IdleTask)
                /\ ev' = e0("tooLarge", 0)
                /\ UNCHANGED waiters
           ELSE /\ aw => HasFree(W0)
                /\ IF te # NoError
                   THEN /\ tasks' = tks(IdleTask)
                        /\ SetWaiters(Collect(w, TaskRefs(tasks', w.prp, w.drp)))
                        /\ ev' = e0(IF te = ErrNoTx THEN "noTx" ELSE "tooLarge", 0)
                   ELSE /\ tasks' = tks(run)
                        /\ SetWaiters(Collect(w, TaskRefs(tasks', w.prp, w.drp)))
                        /\ ev' = e0("-", len)

\* sendData(data, {awaitData: aw}) with a payload of len bytes, up to the await of
\* the write
SendDataCall(t, len, aw) ==
    /\ pc = "idle"
    /\ tasks[t].pc = "idle"
    /\ TaskFrame
    /\ LET run == [pc |-> "write", chan |-> "data", aw |-> aw, p |-> 0,
                   link |-> txCharacteristic, m |-> NoMsg, u |-> NoUpload]
       IN  \E s \in {SendDataStart(W0, len, aw)} :
           /\ s.ok
           /\ tasks' = [tasks EXCEPT ![t] = IF s.ret = "-" THEN run ELSE IdleTask]
           /\ ev' = [Ev("sendData", 0, 0, s.wrote) EXCEPT
                        !.ret = s.ret, !.len = len,
                        !.pre = IF s.wrote > 0 THEN DataPrefix ELSE <<>>]
           /\ IF s.early
              THEN UNCHANGED waiters
              ELSE SetWaiters(Collect(s.w, TaskRefs(tasks', s.w.prp, s.w.drp)))

\* the write of an application call settles; an awaited call returns the promise
\* stored in the field of its channel
TaskWriteDone(t, ok) ==
    /\ tasks[t].pc = "write"
    /\ TaskFrame
    /\ LET q == IF tasks[t].chan = "print" THEN printResponsePromise
                ELSE dataResponsePromise
           st == IF q > 0 THEN promise[q].st ELSE "none"
           ret == IF ~ok THEN "writeFailed"
                  ELSE IF ~tasks[t].aw THEN "void"
                  ELSE IF st = "pending" THEN "-"
                  ELSE IF st = "resolved" THEN "value"
                  ELSE "timeout"
           done == IF ret = "value"
                   THEN IF tasks[t].u.on
                        THEN UploadContinue(tasks, W0, t, promise[q].val)
                        ELSE Continue(tasks, W0, t)
                   ELSE [tks |-> IF ret = "-"
                                 THEN [tasks EXCEPT ![t].pc = "wait", ![t].p = q]
                                 ELSE [tasks EXCEPT ![t] = IdleTask],
                         w |-> W0, wrote |-> 0, ret |-> ret, ok |-> TRUE,
                         code |-> tasks[t].m.code, len |-> tasks[t].m.total]
       IN  \E a \in {done} :
           /\ ok => (gattConnected /\ tasks[t].link = 1)
           /\ a.ok
           /\ tasks' = a.tks
           /\ SetWaiters(Collect(a.w, TaskRefs(a.tks, a.w.prp, a.w.drp)))
           /\ ev' = [Ev("writeDone", 0, 0, a.wrote) EXCEPT
                        !.ret = a.ret, !.code = a.code, !.len = a.len,
                        !.pre = IF a.wrote > 0 THEN DataPrefix ELSE <<>>,
                        !.resVal = IF ok /\ tasks[t].aw /\ st = "resolved"
                                   THEN promise[q].val ELSE <<>>]

(***************************************************************************)
(* The specifications                                                      *)
(***************************************************************************)
ObserverKinds == {"none", "ok"}

\* connect() and the disconnects, with the notifications and timers of the handshake
Next ==
    \/ \E n \in 0..MaxAttempts : ConnectCall(n)
    \/ \E ok \in BOOLEAN : RequestDeviceDone(ok)
    \/ \E r \in Outcomes : GattConnectDone(r)
    \/ \E r \in Outcomes : GetServiceDone(r)
    \/ \E r \in Outcomes : GetTxDone(r)
    \/ \E r \in Outcomes : GetRxDone(r)
    \/ \E r \in Outcomes : StartNotifDone(r)
    \/ \E r \in Outcomes : BreakWriteDone(r)
    \/ BreakDelayDone
    \/ \E r \in Outcomes : MtuWriteDone(r)
    \/ StopNotifDone
    \/ RetryDelayDone
    \/ ExternalDisconnect
    \/ Disconnect
    \/ \E h \in ObserverKinds : SetDisconnectHandler(h)
    \/ \E value \in HsMsgs : Notify(value)
    \/ \E t \in timers : TimerFire(t)

Spec == Init /\ [][Next]_vars

(***************************************************************************)
(* The session after connect() has returned: a state of Spec, reached by   *)
(* a first attempt that succeeds with the reply mtuString to the size      *)
(* query.                                                                  *)
(***************************************************************************)
OpenedWith(mtuString, tks) ==
    /\ device = TRUE
    /\ server = TRUE
    /\ txCharacteristic = 1
    /\ rxCharacteristic = 1
    /\ maxPayload = parseInt(mtuString).val
    /\ awaitingPrintResponse = FALSE
    /\ awaitingDataResponse = FALSE
    /\ printTimeoutId = 0
    /\ printResponsePromise = -1
    /\ printResolve = -1
    /\ dataResponsePromise = 0
    /\ dataResolve = 0
    /\ onDataResponse = "none"
    /\ onPrintResponse = "none"
    /\ onDisconnectHandler = "none"
    /\ gattConnected = TRUE
    /\ devListener = 1
    /\ rxListeners = {1}
    /\ timers = {}
    /\ promise = [p \in 1..MaxPromises |-> NoPromise]
    /\ pc = "idle"
    /\ attempt = 1
    /\ numAttempts = 1
    /\ lastError = NoError
    /\ curErr = NoError
    /\ hsPromise = 0
    /\ tasks = tks
    /\ attemptsMade = 1
    /\ delaysWaited = 0
    /\ attemptLog = <<OpenOk>>
    /\ openResult = OpenOk
    /\ selected = TRUE
    /\ ev = EvNotify(mtuString, 1, 0, mtuString, <<>>, <<>>)

Opened(mtuString) == OpenedWith(mtuString, [t \in TaskIds |-> IdleTask])

\* the reply was "5"
Ready == Opened(<<53>>)

\* lengths of the commands and payloads the application sends
Lens == {1, maxPayload - 1, maxPayload, maxPayload + 1}

\* an application that makes one call at a time
OneCaller == {t \in TaskIds : t = 1}

\* the calls of the application on an open session, the notifications, the timers
\* and the disconnects
NextSession ==
    \/ \E t \in OneCaller, len \in Lens, aw \in BOOLEAN : SendLuaCall(t, len, aw)
    \/ \E t \in OneCaller, len \in Lens, aw \in BOOLEAN : SendDataCall(t, len, aw)
    \/ \E t \in OneCaller, ok \in BOOLEAN : TaskWriteDone(t, ok)
    \/ \E value \in SessionMsgs : Notify(value)
    \/ \E t \in timers : TimerFire(t)
    \/ \E h \in ObserverKinds : SetDataResponseHandler(h)
    \/ \E h \in ObserverKinds : SetPrintResponseHandler(h)
    \/ ExternalDisconnect
    \/ Disconnect

SpecSession == Ready /\ [][NextSession]_vars


(***************************************************************************)
(* The open session with both waiters pending: a state of SpecSession,     *)
(* reached from Ready by sendData(awaitData) whose write fails and         *)
(* sendLua(awaitPrint) whose write succeeds.                               *)
(***************************************************************************)
Busy ==
    /\ device = TRUE
    /\ server = TRUE
    /\ txCharacteristic = 1
    /\ rxCharacteristic = 1
    /\ maxPayload = 5
    /\ awaitingPrintResponse = TRUE
    /\ awaitingDataResponse = TRUE
    /\ printTimeoutId = 2
    /\ printResponsePromise = 2
    /\ printResolve = 2
    /\ dataResponsePromise = 1
    /\ dataResolve = 1
    /\ onDataResponse = "none"
    /\ onPrintResponse = "none"
    /\ onDisconnectHandler = "none"
    /\ gattConnected = TRUE
    /\ devListener = 1
    /\ rxListeners = {1}
    /\ timers = {Timer("data", 1), Timer("print", 2)}
    /\ promise = [p \in 1..MaxPromises |-> IF p \in {1, 2} THEN Pending ELSE NoPromise]
    /\ pc = "idle"
    /\ attempt = 1
    /\ numAttempts = 1
    /\ lastError = NoError
    /\ curErr = NoError
    /\ hsPromise = 0
    /\ tasks = [t \in TaskIds |->
                   IF t = 1
                   THEN [pc |-> "wait", chan |-> "print", aw |-> TRUE, p |-> 2, link |-> 1,
                         m |-> NoMsg, u |-> NoUpload]
                   ELSE IdleTask]
    /\ attemptsMade = 1
    /\ delaysWaited = 0
    /\ attemptLog = <<OpenOk>>
    /\ openResult = OpenOk
    /\ selected = TRUE
    /\ ev = Ev("writeDone", 0, 0, 0)

(***************************************************************************)
(* The open session used by callers that do not wait for one another: each *)
(* issues awaited commands of one byte, the writes succeed or fail, and the *)
(* device answers with a data response or a print response, or not at all.  *)
(***************************************************************************)
OverlapMsgs == {m \in Msgs : m \in {<<DataTag>>, <<53>>}}

NextOverlap ==
    \/ \E t \in TaskIds : SendLuaCall(t, SignalLen, TRUE)
    \/ \E t \in TaskIds : SendDataCall(t, SignalLen, TRUE)
    \/ \E t \in TaskIds, ok \in BOOLEAN : TaskWriteDone(t, ok)
    \/ \E value \in OverlapMsgs : Notify(value)
    \/ \E t \in timers : TimerFire(t)

SpecOverlap == Ready /\ [][NextOverlap]_vars

(***************************************************************************)
(* sendMessage called by the application, up to the await of the write of  *)
(* the first chunk.  The payload is given by its length.                   *)
(***************************************************************************)
\* faulty variant of ArgumentError: the bounds are off by one
ArgumentErrorOffByOne(msgCode, totalPayloadSize) ==
    IF msgCode < 0 \/ msgCode >= 255 THEN "badCode"
    ELSE IF totalPayloadSize > MAX_TOTAL_PAYLOAD_SIZE + 1 THEN "badSize"
    ELSE "-"

\* the two tests of the arguments: "-" when both pass
ArgumentError(msgCode, totalPayloadSize) ==
    IF msgCode < 0 \/ msgCode > 255 THEN "badCode"
    ELSE IF totalPayloadSize > MAX_TOTAL_PAYLOAD_SIZE THEN "badSize"
    ELSE "-"

\* faulty variant of TooSmall: a capacity of no byte is accepted
TooSmallStrict(maxFirstChunkDataSize, maxSubsequentChunkDataSize) ==
    maxFirstChunkDataSize < 0 \/ maxSubsequentChunkDataSize < 0

\* the test of the two chunk capacities
TooSmall(maxFirstChunkDataSize, maxSubsequentChunkDataSize) ==
    maxFirstChunkDataSize <= 0 \/ maxSubsequentChunkDataSize <= 0

SendMessageCall(t, msgCode, totalPayloadSize) ==
    /\ pc = "idle"
    /\ tasks[t].pc = "idle"
    /\ TaskFrame
    /\ LET maxDataPayloadForSend == getMaxPayload(FALSE)
           maxFirstChunkDataSize == maxDataPayloadForSend - 1 - HEADER_SIZE
           maxSubsequentChunkDataSize == maxDataPayloadForSend - 1
           firstChunkActualDataSize == Min(maxFirstChunkDataSize, totalPayloadSize)
           firstPacketDataForSendData ==
               <<Uint8(msgCode), Uint8(totalPayloadSize \div 256),
                 Uint8(totalPayloadSize % 256)>>
                 \o Slice(Payload(totalPayloadSize), 0, firstChunkActualDataSize)
           first == SendDataStart(W0, Len(firstPacketDataForSendData), TRUE)
           run == [pc |-> "write", chan |-> "data", aw |-> TRUE, p |-> 0,
                   link |-> txCharacteristic,
                   m |-> [on |-> TRUE, code |-> msgCode, total |-> totalPayloadSize,
                          sent |-> 0, chunk |-> firstChunkActualDataSize,
                          cap |-> maxSubsequentChunkDataSize,
                          out |-> <<DataPrefix \o firstPacketDataForSendData>>],
                   u |-> NoUpload]
           e0(r, n) == [Ev("sendMessage", 0, 0, n) EXCEPT
                           !.ret = r, !.code = msgCode, !.len = totalPayloadSize,
                           !.pre = IF n > 0 THEN DataPrefix ELSE <<>>]
           throw(r) == /\ tasks' = [tasks EXCEPT ![t] = IdleTask]
                       /\ ev' = e0(r, 0)
                       /\ UNCHANGED waiters
       IN  IF ArgumentError(msgCode, totalPayloadSize) # "-"
           THEN throw(ArgumentError(msgCode, totalPayloadSize))
           ELSE IF TooSmall(maxFirstChunkDataSize, maxSubsequentChunkDataSize)
           THEN throw("tooSmall")
           ELSE \E s \in {first} :
                /\ s.ok
                /\ tasks' = [tasks EXCEPT ![t] = IF s.ret = "-" THEN run ELSE IdleTask]
                /\ ev' = e0(s.ret, s.wrote)
                /\ IF s.early
                   THEN UNCHANGED waiters
                   ELSE SetWaiters(Collect(s.w, TaskRefs(tasks', s.w.prp, s.w.drp)))

(***************************************************************************)
(* The open session of an application that sends messages, one at a time,  *)
(* after a connect() whose size query was answered with 1 .. 7 or 65540.   *)
(***************************************************************************)
MtuReplies == {<<d>> : d \in 49..55} \cup {<<54, 53, 53, 52, 48>>}

\* message codes; with the longest payload, the highest code and the one above it
MsgCodes ==
    IF maxPayload >= MAX_TOTAL_PAYLOAD_SIZE + 4 THEN {255, 256} ELSE {-1, 0, 5, 255, 256}

\* payload lengths; the longest payload allowed is sent where one chunk holds it,
\* and given where the call fails
MsgSizes ==
    IF maxPayload >= MAX_TOTAL_PAYLOAD_SIZE + 4
    THEN {MAX_TOTAL_PAYLOAD_SIZE, MAX_TOTAL_PAYLOAD_SIZE + 1}
    ELSE {0, 1, 10, MAX_TOTAL_PAYLOAD_SIZE + 1}
           \cup (IF maxPayload <= 4 THEN {MAX_TOTAL_PAYLOAD_SIZE} ELSE {})

NextFramed ==
    \/ \E t \in OneCaller, msgCode \in MsgCodes, n \in MsgSizes :
           SendMessageCall(t, msgCode, n)
    \/ \E t \in OneCaller, ok \in BOOLEAN : TaskWriteDone(t, ok)
    \/ \E value \in OverlapMsgs : Notify(value)
    \/ \E t \in timers : TimerFire(t)
    \/ ExternalDisconnect

Framed == \E mtuString \in MtuReplies : Opened(mtuString)

SpecFramed == Framed /\ [][NextFramed]_vars

(***************************************************************************)
(* The open session of an application whose observers may fail: an         *)
(* observer returns, throws, or returns a promise that is rejected.        *)
(***************************************************************************)
CallbackKinds == {"none", "ok", "throws", "rejects"}

NextObservers ==
    \/ \E h \in CallbackKinds : SetDataResponseHandler(h)
    \/ \E h \in CallbackKinds : SetPrintResponseHandler(h)
    \/ \E t \in OneCaller : SendLuaCall(t, SignalLen, TRUE)
    \/ \E t \in OneCaller : SendDataCall(t, SignalLen, TRUE)
    \/ \E t \in OneCaller, ok \in BOOLEAN : TaskWriteDone(t, ok)
    \/ \E value \in SessionMsgs : Notify(value)
    \/ \E t \in timers : TimerFire(t)

SpecObservers == Ready /\ [][NextObservers]_vars

(***************************************************************************)
(* uploadFileFromString on an open session.                                *)
(***************************************************************************)
\* uploadFileFromString(content, frameFilePath) up to the await in its first sendLua
UploadCall(t, content, frameFilePath) ==
    /\ pc = "idle"
    /\ tasks[t].pc = "idle"
    /\ TaskFrame
    /\ LET u == [on |-> TRUE, content |-> content, escaped |-> escapedContent(content),
                 i |-> 0, size |-> 0, at |-> "open", out |-> <<>>]
       IN  \E r \in {UploadSend(tasks, W0, t, u, OpenCommand(frameFilePath))} :
           /\ r.ok
           /\ tasks' = r.tks
           /\ SetWaiters(Collect(r.w, TaskRefs(r.tks, r.w.prp, r.w.drp)))
           /\ ev' = [Ev("upload", 0, 0, r.wrote) EXCEPT !.ret = r.ret, !.len = r.len]

\* "x.lua"
XLua == <<120, 46, 108, 117, 97>>

\* n times the character c
Repeat(c, n) == [k \in 1..n |-> c]

\* "hello\nworld"
HelloWorld == <<104, 101, 108, 108, 111, Newline, 119, 111, 114, 108, 100>>

\* the contents uploaded: none, "hello\nworld", backslashes only, a newline where
\* the first chunk ends, escapes of the other kinds with a carriage return, and
\* characters of two bytes
UploadContents ==
    {<<>>, HelloWorld,
     Repeat(Backslash, 10),
     Repeat(Ordinary, 18) \o <<Newline, Ordinary>>,
     Repeat(Ordinary, 17) \o <<Tab, CarriageReturn, DoubleQuote, SingleQuote>>,
     Repeat(WideChar, 19)}

\* the responses of the device to an upload: "39", "40" and "60" to the size query,
\* "1" and "0" to a command
UploadMtus == {<<51, 57>>, <<52, 48>>, <<54, 48>>}

UploadMsgs == {Sentinel, <<48>>}

NextUpload ==
    \/ \E t \in OneCaller, content \in UploadContents : UploadCall(t, content, XLua)
    \/ \E t \in OneCaller, ok \in BOOLEAN : TaskWriteDone(t, ok)
    \/ \E value \in UploadMsgs : Notify(value)
    \/ \E t \in timers : TimerFire(t)
    \/ ExternalDisconnect

Uploading == \E mtuString \in UploadMtus : Opened(mtuString)

SpecUpload == Uploading /\ [][NextUpload]_vars


(***************************************************************************)
(* Sends of every kind on a session that is lost and opened again.  The    *)
(* platform rejects nothing here: a write settles when it is accepted, and *)
(* the write in flight when the link is lost stays unsettled.              *)
(***************************************************************************)
\* the responses of the device: "40", its answer to the size query, "1" to a
\* command of an upload, and a data response
ReopenMsgs == {<<52, 48>>, Sentinel, <<DataTag>>}

NextReopen ==
    \/ \E t \in OneCaller, aw \in BOOLEAN : SendLuaCall(t, SignalLen, aw)
    \/ \E t \in OneCaller : SendDataCall(t, SignalLen, TRUE)
    \/ \E t \in OneCaller : SendMessageCall(t, 5, 10)
    \/ \E t \in OneCaller : UploadCall(t, HelloWorld, XLua)
    \/ \E t \in OneCaller : TaskWriteDone(t, TRUE)
    \/ \E value \in ReopenMsgs : Notify(value)
    \/ \E t \in timers : TimerFire(t)
    \/ ExternalDisconnect
    \/ Disconnect
    \/ ConnectCall(1)
    \/ \E ok \in BOOLEAN : RequestDeviceDone(ok)
    \/ GattConnectDone(NoError)
    \/ GetServiceDone(NoError)
    \/ GetTxDone(NoError)
    \/ GetRxDone(NoError)
    \/ StartNotifDone(NoError)
    \/ BreakWriteDone(NoError)
    \/ BreakDelayDone
    \/ MtuWriteDone(NoError)
    \/ StopNotifDone

SpecReopen == Opened(<<52, 48>>) /\ [][NextReopen]_vars

(***************************************************************************)
(* The loop of uploadFileFromString as a function of the content and of    *)
(* maxChunkSize, every write acknowledged with "1".                        *)
(***************************************************************************)
Alphabet ==
    {CarriageReturn, Backslash, Newline, Tab, SingleQuote, DoubleQuote, Ordinary,
     LetterN}

Contents == SeqsUpTo(Alphabet, MaxContent)

\* one pass of the outer while loop: the chunk is cut and passed to sendLua in a
\* write command, or the loop ends, with the content written or with the close
\* command passed to sendLua and the throw
ChunkStep(t) ==
    /\ tasks[t].pc = "loop"
    /\ TaskFrame
    /\ UNCHANGED waiters
    /\ LET u == tasks[t].u
           i == u.i + u.size
           maxChunkSize == getMaxPayload(TRUE) - luaCommandOverhead
           currentChunkSize ==
               Shrunk(u.escaped, i, Min(maxChunkSize, Len(u.escaped) - i))
           chunk == substring(u.escaped, i, i + currentChunkSize)
       IN  IF i >= Len(u.escaped)
           THEN /\ tasks' = [tasks EXCEPT ![t].pc = "done", ![t].u.i = i,
                                          ![t].u.size = 0, ![t].u.at = "close"]
                /\ ev' = [Ev("chunk", 0, 0, 0) EXCEPT !.ret = "uploaded"]
           ELSE IF currentChunkSize = 0
           THEN /\ tasks' = [tasks EXCEPT ![t].pc = "done", ![t].u.i = i,
                                          ![t].u.size = 0, ![t].u.at = "closeChunking",
                                          ![t].u.out = Append(u.out, CloseCommand)]
                /\ ev' = [Ev("chunk", 0, 0, Len(CloseCommand)) EXCEPT
                             !.ret = "chunkingError", !.len = Len(CloseCommand)]
           ELSE /\ tasks' = [tasks EXCEPT ![t].u.i = i,
                                          ![t].u.size = currentChunkSize,
                                          ![t].u.out = Append(u.out, WriteCommand(chunk))]
                /\ ev' = [Ev("chunk", 0, 0, Len(WriteCommand(chunk))) EXCEPT
                             !.len = Len(WriteCommand(chunk))]

\* the size "2k" the device reports, for a maxChunkSize of k from 1 to 9
MtuFor(k) == <<50, 48 + k>>

InLoop(content) ==
    [t \in TaskIds |->
        IF t = 1
        THEN [IdleTask EXCEPT !.pc = "loop",
                              !.u = [on |-> TRUE, content |-> content,
                                     escaped |-> escapedContent(content), i |-> 0,
                                     size |-> 0, at |-> "write", out |-> <<>>]]
        ELSE IdleTask]

Chunking ==
    \E content \in Contents, k \in 1..MaxChunkSize :
        OpenedWith(MtuFor(k), InLoop(content))

NextChunks == \E t \in OneCaller : ChunkStep(t)

SpecChunks == Chunking /\ [][NextChunks]_vars

Bytes == 0..255

\* nothing, every single byte, and two bytes that start with the data tag or "5"
DemuxMsgs == {<<>>} \cup {<<b>> : b \in Bytes} \cup {<<b, 53>> : b \in {DataTag, 53}}

\* the notifications with every first byte, and the observers
NextDemux ==
    \/ \E value \in DemuxMsgs : Notify(value)
    \/ \E h \in ObserverKinds : SetDataResponseHandler(h)
    \/ \E h \in ObserverKinds : SetPrintResponseHandler(h)

SpecDemux == Busy /\ [][NextDemux]_vars

\* the same under the handler of src/FrameBle.ts
NextFrameBleTs ==
    \/ \E value \in DemuxMsgs : NotifyFrameBleTs(value)
    \/ \E h \in ObserverKinds : SetDataResponseHandler(h)
    \/ \E h \in ObserverKinds : SetPrintResponseHandler(h)

SpecFrameBleTs == Busy /\ [][NextFrameBleTs]_vars

(***************************************************************************)
(* Properties                                                              *)
(***************************************************************************)
\* connect() has returned with an error
Failed == pc = "idle" /\ openResult \notin {NoError, OpenOk}

\* the attempt that threw e failed for good
Fatal(e) == e # OpenOk /\ ~isRetryableError(e)

\* the step taken is a disconnect(): a call of it, or the loss of the link
DisconnectStep == ev'.kind \in {"disconnect", "linkLoss"}

\* the step taken is the notification handler run on a value with bytes
NotifyStep == ev'.kind = "notify" /\ Len(ev'.value) > 0

\* the waiter of a channel and its timer
PrintSide ==
    <<awaitingPrintResponse, printResolve, printResponsePromise, printTimeoutId,
      {t \in timers : t.chan = "print"},
      IF printResolve > 0 THEN promise[printResolve] ELSE NoPromise>>

DataSide ==
    <<awaitingDataResponse, dataResolve, dataResponsePromise,
      {t \in timers : t.chan = "data"},
      IF dataResolve > 0 THEN promise[dataResolve] ELSE NoPromise>>

\* C1: an attempt that throws an error that is not a retryable link error is the
\* last attempt of its connect() call, whatever its index and however many attempts
\* were allowed: no retry delay follows it, connect() has returned and has thrown
\* that error.
C1_FatalErrorAborts ==
    \A i \in 1..Len(attemptLog) :
        Fatal(attemptLog[i]) =>
            /\ i = Len(attemptLog)
            /\ attemptsMade = i
            /\ delaysWaited = i - 1
            /\ pc = "idle"
            /\ openResult = attemptLog[i]

\* C1 happens: the first of several allowed attempts throws a SecurityError whose
\* message is one of the listed texts
C1_Witness ==
    /\ numAttempts > 1
    /\ attemptLog = <<Err("SecurityError", "GATT operation failed for unknown reason.")>>
    /\ Failed

\* C2: when k attempts have thrown retryable link errors and the next attempt has
\* succeeded, connect() has returned the device identifier, k < numAttempts, exactly
\* k + 1 attempts were made and exactly k retry delays were waited.
C2_RetriesThenSuccess ==
    LET n == Len(attemptLog)
    IN  (/\ n > 0
         /\ attemptLog[n] = OpenOk
         /\ \A i \in 1..(n - 1) : isRetryableError(attemptLog[i]))
        => /\ pc = "idle"
           /\ openResult = OpenOk
           /\ n <= numAttempts
           /\ attemptsMade = n
           /\ delaysWaited = n - 1

\* C2 happens: three attempts allowed, two retryable failures, the third succeeds
C2_Witness ==
    /\ numAttempts = 3
    /\ Len(attemptLog) = 3
    /\ attemptLog[3] = OpenOk
    /\ delaysWaited = 2

\* C3: connect() makes at most numAttempts attempts and waits a retry delay only
\* between two attempts: the delays never outnumber the attempts, and when connect()
\* has returned they are one fewer than the attempts (none when no attempt was made).
C3_DelaysBetweenAttempts ==
    /\ attemptsMade <= numAttempts
    /\ delaysWaited <= attemptsMade
    /\ pc = "idle" => delaysWaited = IF attemptsMade = 0 THEN 0 ELSE attemptsMade - 1

\* C3 fails this way: the cleanup of a failed attempt disconnects the link, the
\* disconnect handler clears this.device, and the retry delay is waited although no
\* attempt can follow it
C3_DelayWithoutAttempt ==
    /\ pc = "retryDelay"
    /\ ev.kind = "step"
    /\ ev.hd = 1
    /\ ~device
    /\ attempt < numAttempts
    /\ isRetryableError(lastError)

\* C4: when connect() has thrown after a device was there to connect to, neither
\* the device nor the server nor a characteristic is held.
C4_FailedOpenHoldsNothing ==
    (Failed /\ openResult # ErrRequest)
        => ~device /\ ~server /\ txCharacteristic = 0 /\ rxCharacteristic = 0

\* C4 happens: a device was selected and every allowed attempt threw a retryable
\* error
C4_Witness ==
    /\ Failed
    /\ selected
    /\ attemptsMade = numAttempts
    /\ numAttempts = MaxAttempts
    /\ isRetryableError(openResult)

\* C5: when an attempt after the first starts, the link is not connected and no
\* server or characteristic is held; and an attempt that fails while it holds its RX
\* characteristic leaves no notification listener on it.
C5_AttemptStartsClean ==
    /\ [](pc = "gattConnect" /\ attempt > 1
            => ~gattConnected /\ ~server /\ txCharacteristic = 0 /\ rxCharacteristic = 0)
    /\ [][(/\ Len(attemptLog') > Len(attemptLog)
           /\ attemptLog'[Len(attemptLog')] # OpenOk
           /\ rxCharacteristic # 0)
          => rxCharacteristic \notin rxListeners']_vars

\* C5 happens: the second attempt starts after the first has failed
C5_Witness ==
    /\ pc = "gattConnect"
    /\ attempt = 2
    /\ Len(attemptLog) = 1
    /\ ev.kind = "step"

\* C6: on a held device with a connected link, disconnect() and the loss of the link
\* do the same: handleDisconnect runs exactly once (disconnect() clears nothing by a
\* second run of its own), the four handles are cleared, the link is down, the
\* registered callback is called exactly once, and nothing else changes.
C6_DisconnectSameEffect ==
    [][(DisconnectStep /\ device /\ gattConnected)
            => /\ ev'.hd = 1
               /\ ev'.cb = (IF onDisconnectHandler = "none" THEN 0 ELSE 1)
               /\ ~device' /\ ~server' /\ txCharacteristic' = 0 /\ rxCharacteristic' = 0
               /\ ~gattConnected'
               /\ UNCHANGED <<maxPayload, waiters, handlers, devListener, rxListeners,
                              call, tasks, history>>]_vars

\* C6 happens: disconnect() on the session connect() returned, with a callback
\* registered
C6_Witness ==
    /\ ev.kind = "disconnect"
    /\ ev.hd = 1
    /\ ev.cb = 1
    /\ ~gattConnected
    /\ openResult = OpenOk
    /\ pc = "idle"

\* C7: after handleDisconnect has run for a disconnect, no waiter is pending: no
\* promise of an awaited call is pending and no call awaits one.
C7_DisconnectFailsWaiters ==
    (ev.kind \in {"disconnect", "linkLoss"} /\ ev.hd = 1)
        => /\ \A q \in DOMAIN promise : promise[q].st # "pending"
           /\ \A t \in TaskIds : tasks[t].pc # "wait"

\* C7 fails this way: the link is lost while sendLua awaits its print response; the
\* handler has run and the call still awaits the pending promise
C7_WaiterLeftPending ==
    /\ ev.kind = "linkLoss"
    /\ ev.hd = 1
    /\ awaitingPrintResponse
    /\ \E t \in TaskIds : /\ tasks[t].pc = "wait"
                          /\ tasks[t].chan = "print"
                          /\ promise[tasks[t].p].st = "pending"

\* C8: a value with bytes whose first byte is 1 resolves no print waiter, calls no
\* print observer, leaves the print waiter as it was and reaches the data observer
\* when one is registered; with any other first byte it resolves no data waiter,
\* calls no data observer, leaves the data waiter as it was and reaches the print
\* observer when one is registered.
C8_TagSelectsChannel ==
    [][NotifyStep =>
        IF ev'.value[1] = DataTag
        THEN /\ ev'.resPrint = 0
             /\ ev'.obsPrint = <<>>
             /\ UNCHANGED PrintSide
             /\ onDataResponse # "none" => Len(ev'.obsData) = 1
        ELSE /\ ev'.resData = 0
             /\ ev'.obsData = <<>>
             /\ UNCHANGED DataSide
             /\ onPrintResponse # "none" => Len(ev'.obsPrint) = 1]_vars

\* C8 happens: a data response resolves the data waiter and reaches the data
\* observer while the print waiter stays pending
C8_Witness ==
    /\ ev.kind = "notify"
    /\ ev.value = <<1, 53>>
    /\ ev.resData # 0
    /\ ev.obsData = <<(<<53>>)>>
    /\ awaitingPrintResponse

\* C9: a notification whose value has no bytes resolves no waiter, calls no
\* observer, and the handler does not throw.
C9_EmptyDropped ==
    (ev.kind = "notify" /\ Len(ev.value) = 0)
        => /\ ev.resPrint = 0
           /\ ev.resData = 0
           /\ ev.obsPrint = <<>>
           /\ ev.obsData = <<>>
           /\ ~ev.threw

\* C9 fails this way: the handler of src/FrameBle.ts throws on the empty value
C9_EmptyThrows == ev.kind = "notify" /\ Len(ev.value) = 0 /\ ev.threw

\* C10: for a value with bytes, the registered observer of its channel is called
\* once with the decoded value, and the pending waiter of its channel is resolved with
\* that value, each whether or not the other is there.
C10_ObserverAndWaiter ==
    [][NotifyStep =>
        IF ev'.value[1] = DataTag
        THEN LET val == Tail(ev'.value)
             IN  /\ onDataResponse # "none" => ev'.obsData = <<val>>
                 /\ (awaitingDataResponse /\ dataResolve > 0
                       /\ promise[dataResolve].st = "pending")
                      => /\ ev'.resData = dataResolve
                         /\ ev'.resVal = val
                         /\ ~awaitingDataResponse'
        ELSE LET val == TextDecode(ev'.value)
             IN  /\ onPrintResponse # "none" => ev'.obsPrint = <<val>>
                 /\ (awaitingPrintResponse /\ printResolve > 0
                       /\ promise[printResolve].st = "pending")
                      => /\ ev'.resPrint = printResolve
                         /\ ev'.resVal = val
                         /\ ~awaitingPrintResponse']_vars

\* C10 happens: one print message resolves the print waiter and is passed to the
\* print observer
C10_Witness ==
    /\ ev.kind = "notify"
    /\ ev.resPrint # 0
    /\ ev.resVal = <<53>>
    /\ ev.obsPrint = <<(<<53>>)>>
    /\ ev.ret = "value"

\* C11: a waiter completes at most once.  A promise that is resolved or rejected
\* never changes again; a message resolves only a waiter that is still pending, and
\* then the slot is free and the timer of that waiter is gone; a timer fails only a
\* waiter that is still pending, and then the slot is free, so that a later message
\* resolves nothing.
C11_OneCompletion ==
    [][/\ \A q \in DOMAIN promise :
              promise[q].st \in {"resolved", "rejected"}
                  => promise'[q] \in {promise[q], NoPromise}
       /\ (ev'.kind \in {"notify", "timer"} /\ ev'.resPrint # 0)
              => /\ promise[ev'.resPrint].st = "pending"
                 /\ ~awaitingPrintResponse'
                 /\ Timer("print", ev'.resPrint) \notin timers'
                 /\ PrintTarget(W0)' = 0
       /\ (ev'.kind \in {"notify", "timer"} /\ ev'.resData # 0)
              => /\ promise[ev'.resData].st = "pending"
                 /\ ~awaitingDataResponse'
                 /\ Timer("data", ev'.resData) \notin timers'
                 /\ DataTarget(W0)' = 0
       /\ ev'.ret = "value" => ev'.kind \in {"notify", "writeDone"}
       /\ ev'.ret = "timeout" => ev'.kind \in {"timer", "writeDone"}]_vars

\* C11 happens: the timer of a data waiter fails it while the caller awaits it
C11_Witness ==
    /\ ev.kind = "timer"
    /\ ev.resData # 0
    /\ ev.ret = "timeout"
    /\ ~awaitingDataResponse

\* the call of task t is suspended on the promise of an awaited command of channel ch
Awaits(t, ch) == tasks[t].pc = "wait" /\ tasks[t].chan = ch

\* C12: a caller suspended on an awaited text command has its waiter in the slot
\* and its timer running; when the timer fires the caller gets the timeout error and
\* the slot is free (not awaiting, no resolver, no timer); and an awaited text
\* command issued then takes the slot with a pending promise and one running timer
\* of its own, so the next text message or that timer completes it.
C12_TimeoutFreesTextSlot ==
    /\ [](\A t \in TaskIds :
            Awaits(t, "print")
                => /\ awaitingPrintResponse
                   /\ printResolve = tasks[t].p
                   /\ promise[tasks[t].p].st = "pending"
                   /\ Timer("print", tasks[t].p) \in timers)
    /\ [][/\ (ev'.kind = "timer" /\ ev'.resPrint # 0)
              => /\ \A t \in TaskIds :
                       (Awaits(t, "print") /\ tasks[t].p = ev'.resPrint)
                           => ev'.ret = "timeout" /\ tasks'[t] = IdleTask
                 /\ promise[ev'.resPrint].st = "pending"
                 /\ ~awaitingPrintResponse'
                 /\ printResolve' = 0
                 /\ printTimeoutId' <= 0
                 /\ {x \in timers' : x.chan = "print"} = {}
          /\ (ev'.kind = "sendLua" /\ ev'.wrote > 0
                /\ \E t \in TaskIds : tasks[t].pc = "idle" /\ tasks'[t].aw)
              => /\ awaitingPrintResponse'
                 /\ printResolve' > 0
                 /\ printResolve' = printResponsePromise'
                 /\ printTimeoutId' = printResolve'
                 /\ promise'[printResolve'].st = "pending"
                 /\ {x \in timers' : x.chan = "print"} = {Timer("print", printResolve')}]_vars

\* C12 happens: an awaited text command got no message, its timer fired, the caller
\* got the timeout error and the slot is free
C12_Witness ==
    /\ ev.kind = "timer"
    /\ ev.resPrint # 0
    /\ ev.ret = "timeout"
    /\ ~awaitingPrintResponse
    /\ printResolve = 0
    /\ \A t \in TaskIds : tasks[t].pc = "idle"

\* C13: a timer fails only the waiter of its own call.  In a timer step a waiter
\* whose own timer is still running afterwards (so another call's timer fired) keeps
\* its slot and stays pending, on either channel.
C13_TimerIsLocal ==
    [][ev'.kind = "timer" =>
        /\ (/\ awaitingPrintResponse
            /\ printResolve > 0
            /\ promise[printResolve].st = "pending"
            /\ Timer("print", printResolve) \in timers')
              => /\ awaitingPrintResponse'
                 /\ printResolve' = printResolve
                 /\ promise'[printResolve].st = "pending"
        /\ (/\ awaitingDataResponse
            /\ dataResolve > 0
            /\ promise[dataResolve].st = "pending"
            /\ Timer("data", dataResolve) \in timers')
              => /\ awaitingDataResponse'
                 /\ dataResolve' = dataResolve
                 /\ promise'[dataResolve].st = "pending"]_vars

\* C13 fails this way: the timer of an earlier sendData has cleared the slot of the
\* waiter of a later one; the later call is suspended on a pending promise that no
\* message resolves, while its own timer is still running
C13_LaterWaiterCleared ==
    /\ ev.kind = "timer"
    /\ ~awaitingDataResponse
    /\ dataResolve = 0
    /\ \E t \in TaskIds :
          /\ Awaits(t, "data")
          /\ promise[tasks[t].p].st = "pending"
          /\ Timer("data", tasks[t].p) \in timers

\* C14: an awaited call that is suspended can still complete: the slot of its
\* channel is awaiting, and either the resolver in the slot is the call's (a message
\* resolves it) or the timer of the call is running (the timeout fails it).
C14_SuspendedCallCompletes ==
    \A t \in TaskIds :
        tasks[t].pc = "wait"
            => LET q == tasks[t].p
                   ch == tasks[t].chan
                   awaiting == IF ch = "print" THEN awaitingPrintResponse
                               ELSE awaitingDataResponse
                   resolver == IF ch = "print" THEN printResolve ELSE dataResolve
               IN  /\ promise[q].st = "pending"
                   /\ awaiting
                   /\ resolver = q \/ Timer(ch, q) \in timers

\* C14 fails this way: a call is suspended on a pending data promise, the slot is
\* not awaiting and no data timer is running: neither a message nor a timer nor a
\* disconnect completes the call
C14_SuspendedForever ==
    \E t \in TaskIds :
        /\ Awaits(t, "data")
        /\ promise[tasks[t].p].st = "pending"
        /\ ~awaitingDataResponse
        /\ {x \in timers : x.chan = "data"} = {}

\* the pending promises of channel ch that a suspended call awaits
AwaitedPending(ch) ==
    {tasks[t].p : t \in {u \in TaskIds : Awaits(u, ch) /\ promise[tasks[u].p].st = "pending"}}

\* C15: on each channel at most one waiter is pending: the suspended awaited calls
\* of a channel await at most one pending promise.
C15_OneWaiterPerChannel ==
    /\ Cardinality(AwaitedPending("print")) <= 1
    /\ Cardinality(AwaitedPending("data")) <= 1

\* C15 fails this way: two callers are suspended on two pending promises of the
\* print channel, only one of which is in the slot
C15_TwoPendingWaiters ==
    /\ Cardinality(AwaitedPending("print")) = 2
    /\ printResolve \in AwaitedPending("print")
    /\ awaitingPrintResponse

\* the step is an awaited sendLua (sendData) issued by a caller
IssuesPrint == ev'.kind = "sendLua" /\ \E t \in TaskIds : tasks[t].pc = "idle" /\ tasks'[t].aw

IssuesData == ev'.kind = "sendData" /\ \E t \in TaskIds : tasks[t].pc = "idle" /\ tasks'[t].aw

\* an awaited call issued while a waiter is pending in the slot replaces the resolver
\* and raises no error; the promise of the earlier waiter is not settled by it
ReplacesSilently ==
    /\ (IssuesPrint /\ PrintTarget(W0) # 0)
         => /\ ev'.ret = "-"
            /\ ev'.wrote > 0
            /\ printResolve' # printResolve
            /\ PrintTarget(W0)' = printResolve'
            /\ promise'[printResolve] \in {Pending, NoPromise}
    /\ (IssuesData /\ DataTarget(W0) # 0)
         => /\ ev'.ret = "-"
            /\ ev'.wrote > 0
            /\ dataResolve' # dataResolve
            /\ DataTarget(W0)' = dataResolve'
            /\ promise'[dataResolve] \in {Pending, NoPromise}

\* the call of task t awaits a pending promise of channel ch that is not the one
\* the resolver in the slot settles
Replaced(t, ch) ==
    /\ Awaits(t, ch)
    /\ promise[tasks[t].p].st = "pending"
    /\ tasks[t].p # (IF ch = "print" THEN printResolve ELSE dataResolve)

C17_LongLuaRejected ==
    [][(ev'.kind = "sendLua" /\ ev'.len > maxPayload)
          => /\ ev'.ret = "tooLarge"
             /\ ev'.wrote = 0
             /\ UNCHANGED waiters
             /\ \A t \in TaskIds : tasks'[t].pc # "write"]_vars

\* C17 happens: a sendLua longer than the maximum payload has failed while the
\* waiter of an earlier awaited call is pending with its timer, untouched
C17_Witness ==
    /\ ev.kind = "sendLua"
    /\ ev.len = maxPayload + 1
    /\ ev.ret = "tooLarge"
    /\ awaitingPrintResponse
    /\ Timer("print", printResolve) \in timers

\* C18: sendData with a payload of L bytes and maximum payload M: when L > M - 1
\* the call fails before any write and before a waiter is registered; otherwise the
\* value written is the byte 1 followed by the payload, L + 1 <= M bytes in all.
C18_DataFraming ==
    [][ev'.kind = "sendData"
          => IF ev'.len > maxPayload - 1
             THEN /\ ev'.ret \in {"tooLarge", "noTx"}
                  /\ ev'.wrote = 0
                  /\ UNCHANGED waiters
                  /\ \A t \in TaskIds : tasks'[t].pc # "write"
             ELSE ev'.ret = "-"
                    => /\ ev'.pre = <<1>>
                       /\ ev'.wrote = ev'.len + 1
                       /\ ev'.wrote <= maxPayload
                       /\ \E t \in TaskIds : tasks[t].pc = "idle" /\ tasks'[t].pc = "write"]_vars

\* C18 happens: a payload of M - 1 bytes has been written as M bytes
C18_Witness ==
    /\ ev.kind = "sendData"
    /\ ev.len = maxPayload - 1
    /\ ev.pre = <<1>>
    /\ ev.wrote = maxPayload

\* C18 happens: a payload of M bytes has been refused
C18_WitnessRefused ==
    /\ ev.kind = "sendData"
    /\ ev.len = maxPayload
    /\ ev.ret = "tooLarge"
    /\ ev.wrote = 0

\* C19: sendMessage fails with the argument error and writes nothing when the
\* message code is below 0 or above 255 or the payload is longer than 65535 bytes:
\* no waiter is registered and the caller is not suspended; the codes 0 to 255 with
\* a payload of at most 65535 bytes never get the argument error.
C19_ArgumentsChecked ==
    [][ev'.kind = "sendMessage"
          => IF ev'.code < 0 \/ ev'.code > 255 \/ ev'.len > 65535
             THEN /\ ev'.ret \in {"badCode", "badSize"}
                  /\ ev'.wrote = 0
                  /\ UNCHANGED waiters
                  /\ \A t \in TaskIds : tasks'[t].pc # "write"
             ELSE ev'.ret \notin {"badCode", "badSize"}]_vars

\* C19 happens: a payload of 65536 bytes with a valid code has been refused
C19_Witness ==
    /\ ev.kind = "sendMessage"
    /\ ev.code = 255
    /\ ev.len = 65536
    /\ ev.ret = "badSize"
    /\ ev.wrote = 0

\* C19 happens: a payload of 65535 bytes with the code 255 has been accepted and
\* its first chunk written
C19_WitnessAccepted ==
    /\ ev.kind = "sendMessage"
    /\ ev.code = 255
    /\ ev.len = 65535
    /\ ev.ret = "-"
    /\ ev.wrote > 65535

\* C20: a sendMessage with valid arguments fails with the configuration error
\* exactly when the maximum payload is at most 4, whatever the payload, and then
\* nothing is written and no waiter is registered; no call gets the configuration
\* error with a maximum payload of 5 or more.
C20_ConfigurationError ==
    [][ev'.kind = "sendMessage"
          => /\ ev'.ret = "tooSmall" => maxPayload <= 4
             /\ (maxPayload <= 4 /\ ev'.code \in 0..255 /\ ev'.len <= 65535)
                  => /\ ev'.ret = "tooSmall"
                     /\ ev'.wrote = 0
                     /\ UNCHANGED waiters
                     /\ \A t \in TaskIds : tasks'[t].pc # "write"]_vars

\* C20 happens: with a maximum payload of 4, the message with code 5 and a payload
\* of 10 bytes has been refused
C20_Witness ==
    /\ ev.kind = "sendMessage"
    /\ maxPayload = 4
    /\ ev.code = 5
    /\ ev.len = 10
    /\ ev.ret = "tooSmall"
    /\ ev.wrote = 0

\* C20 happens: with a maximum payload of 5 the first chunk of the same message has
\* been written, five bytes with the tag
C20_WitnessAccepted ==
    /\ ev.kind = "sendMessage"
    /\ maxPayload = 5
    /\ ev.code = 5
    /\ ev.len = 10
    /\ ev.ret = "-"
    /\ ev.wrote = 5

\* the last chunk of a message of 10 bytes, sent in slices of 3, 5 and 2 bytes with
\* a maximum payload of 7, has been written on the acknowledgement of the second
LastChunkWritten ==
    /\ ev.kind = "notify"
    /\ maxPayload = 7
    /\ ev.wrote = 4
    /\ \E t \in TaskIds :
         /\ tasks[t].pc = "write"
         /\ tasks[t].m.code = 5
         /\ tasks[t].m.total = 10
         /\ tasks[t].m.sent = 8
         /\ tasks[t].m.chunk = 2
         /\ tasks[t].m.out = <<<<1, 5, 0, 10, 1, 2, 3>>, <<1, 5, 4, 5, 6, 7, 8>>,
                                <<1, 5, 9, 10>>>>

\* the receiver's view of the k-th value written: without the tag byte, the code
\* byte and, in the first, the two size bytes
PayloadSlice(out, k) ==
    SubSeq(out[k], IF k = 1 THEN 5 ELSE 3, Len(out[k]))

\* the payload slices of the first k values written, concatenated in write order
RECURSIVE Reassembled(_, _)
Reassembled(out, k) ==
    IF k = 0 THEN <<>> ELSE Reassembled(out, k - 1) \o PayloadSlice(out, k)

\* C21: when sendMessage returns after the acknowledgement of its last chunk, the
\* payload slices of the values it wrote, concatenated in write order, are the
\* payload, and the first value holds the length of the payload, high byte first;
\* for every valid code, payload and maximum payload of 5 or more.
C21_RoundTrip ==
    [][\A t \in TaskIds :
          (tasks[t].m.on /\ ~tasks'[t].m.on /\ ev'.ret = "sent")
             => LET m == tasks[t].m
                IN  /\ Reassembled(m.out, Len(m.out)) = Payload(m.total)
                    /\ m.out[1][3] = m.total \div 256
                    /\ m.out[1][4] = m.total % 256
                    /\ m.out[1][3] * 256 + m.out[1][4] = m.total
                    /\ maxPayload >= 5]_vars

\* C21 happens: the message of 10 bytes with a maximum payload of 7, written in
\* three chunks, has been acknowledged and sendMessage has returned
C21_Witness ==
    /\ ev.kind = "notify"
    /\ ev.ret = "sent"
    /\ ev.len = 10
    /\ maxPayload = 7

\* C21 happens: the message of 65535 bytes has been acknowledged
C21_WitnessLongest ==
    /\ ev.ret = "sent"
    /\ ev.len = 65535
    /\ ev.code = 255

\* task t has a sendMessage in progress whose next chunk is written in this step
WritesNextChunk(t) ==
    /\ tasks[t].m.on
    /\ tasks'[t].m.on
    /\ Len(tasks'[t].m.out) = Len(tasks[t].m.out) + 1

\* C22: sendMessage does not pipeline.  The step that writes a chunk registers the
\* waiter of that chunk; the call then awaits that waiter's promise and nothing
\* else; the next chunk is written only in the step of a data message that resolves
\* this promise, or when the write of the chunk returns after such a message has
\* resolved it; a promise is resolved by a data message only; and the slice of the
\* next chunk starts where the slices written before end.
C22_NoPipelining ==
    [][\A t \in TaskIds :
          /\ (tasks'[t].m.on /\ tasks'[t].pc = "write" /\ tasks'[t] # tasks[t])
                => /\ awaitingDataResponse'
                   /\ dataResolve' = dataResponsePromise'
                   /\ promise'[dataResponsePromise'] = Pending
                   /\ Timer("data", dataResponsePromise') \in timers'
          /\ (tasks[t].m.on /\ tasks[t].pc = "write" /\ tasks'[t].pc = "wait")
                => tasks'[t].p = dataResponsePromise /\ tasks'[t].m = tasks[t].m
          /\ (tasks[t].m.on /\ tasks[t].pc = "write" /\ tasks'[t] = tasks[t])
                => dataResponsePromise' = dataResponsePromise
          /\ (tasks[t].m.on /\ tasks[t].pc = "wait" /\ tasks'[t].pc = "wait")
                => tasks'[t] = tasks[t]
          /\ WritesNextChunk(t)
                => LET m == tasks[t].m
                       k == Len(m.out)
                       from == Len(Reassembled(m.out, k))
                       slice == PayloadSlice(tasks'[t].m.out, k + 1)
                   IN  /\ \/ /\ tasks[t].pc = "wait"
                             /\ ev'.kind = "notify"
                             /\ Head(ev'.value) = DataTag
                             /\ ev'.resData = tasks[t].p
                             /\ promise[tasks[t].p] = Pending
                          \/ /\ tasks[t].pc = "write"
                             /\ ev'.kind = "writeDone"
                             /\ promise[dataResponsePromise].st = "resolved"
                       /\ tasks'[t].pc = "write"
                       /\ SubSeq(tasks'[t].m.out, 1, k) = m.out
                       /\ slice = SubSeq(Payload(m.total), from + 1, from + Len(slice))
       /\ \A q \in DOMAIN promise :
            (promise[q] = Pending /\ promise'[q].st = "resolved")
               => /\ ev'.kind = "notify"
                  /\ Head(ev'.value) = DataTag
                  /\ ev'.resData = q]_vars

\* C22 happens: the second chunk of a message has been written in the step of the
\* data message that acknowledged the first
C22_Witness ==
    /\ ev.kind = "notify"
    /\ ev.resData # 0
    /\ ev.wrote > 0
    /\ \E t \in TaskIds :
         /\ tasks[t].pc = "write"
         /\ Len(tasks[t].m.out) = 2
         /\ tasks[t].m.sent > 0

\* C30: with a maximum payload M of 5 or more, the first value sendMessage writes
\* is the tag, the code, the two size bytes and a slice of min(M - 4, len) bytes;
\* every later one is the tag, the code and a slice of 1 to M - 2 bytes; a slice is
\* shorter than its capacity only when it ends the payload; an empty payload gives
\* the one chunk [code, 0, 0]; no value written is longer than M.
C30_ChunkShapes ==
    [][\A t \in TaskIds :
          /\ (~tasks[t].m.on /\ tasks'[t].m.on)
                => LET m == tasks'[t].m
                       v == m.out[1]
                       slice == PayloadSlice(m.out, 1)
                   IN  /\ ev'.kind = "sendMessage"
                       /\ maxPayload >= 5
                       /\ Len(m.out) = 1
                       /\ SubSeq(v, 1, 4) = <<1, ev'.code, ev'.len \div 256, ev'.len % 256>>
                       /\ Len(slice) = Min(maxPayload - 4, ev'.len)
                       /\ slice = SubSeq(Payload(ev'.len), 1, Len(slice))
                       /\ Len(v) <= maxPayload
                       /\ ev'.wrote = Len(v)
                       /\ ev'.len = 0 => v = <<1, ev'.code, 0, 0>>
          /\ WritesNextChunk(t)
                => LET m == tasks[t].m
                       k == Len(m.out)
                       v == tasks'[t].m.out[k + 1]
                       slice == PayloadSlice(tasks'[t].m.out, k + 1)
                       before == Len(Reassembled(m.out, k))
                   IN  /\ SubSeq(v, 1, 2) = <<1, m.code>>
                       /\ Len(slice) >= 1
                       /\ Len(slice) = Min(maxPayload - 2, m.total - before)
                       /\ Len(v) <= maxPayload
                       /\ ev'.wrote = Len(v)
                       /\ Len(PayloadSlice(m.out, k))
                            = IF k = 1 THEN maxPayload - 4 ELSE maxPayload - 2
                       /\ m.total > 0
          /\ (tasks[t].m.on /\ ~tasks'[t].m.on /\ ev'.ret = "sent" /\ tasks[t].m.total = 0)
                => tasks[t].m.out = <<<<1, tasks[t].m.code, 0, 0>>>>]_vars

\* C30 happens: with a maximum payload of 6 the payload of 10 bytes has been written
\* in slices of 2, 4 and 4 bytes
C30_Witness ==
    /\ maxPayload = 6
    /\ \E t \in TaskIds :
         /\ tasks[t].m.on
         /\ tasks[t].m.out = <<<<1, 5, 0, 10, 1, 2>>, <<1, 5, 3, 4, 5, 6>>,
                                <<1, 5, 7, 8, 9, 10>>>>

\* C30 happens: an empty payload has been sent as one chunk and acknowledged
C30_WitnessEmpty ==
    /\ ev.kind = "notify"
    /\ ev.ret = "sent"
    /\ ev.len = 0
    /\ ev.code = 255

\* C28: a failing observer does not end the notification handler with an
\* exception: in every notification step the handler returns normally, the waiter
\* of the message is resolved as without the observer, and the listener stays
\* registered for the notifications that follow.
C28_ObserverFailureContained ==
    [][ev'.kind = "notify"
          => /\ ~ev'.threw
             /\ ev'.resData = (IF Len(ev'.value) > 0 /\ Head(ev'.value) = DataTag
                               THEN DataTarget(W0) ELSE 0)
             /\ ev'.resPrint = (IF Len(ev'.value) > 0 /\ Head(ev'.value) # DataTag
                                THEN PrintTarget(W0) ELSE 0)
             /\ UNCHANGED <<rxListeners, gattConnected, handlers>>]_vars

\* C28 fails this way: the data observer has thrown and its exception has left the
\* handler, after the waiter of the message was resolved
C28_ObserverExceptionEscapes ==
    /\ ev.kind = "notify"
    /\ ev.threw
    /\ onDataResponse = "throws"
    /\ ev.obsData # <<>>
    /\ ev.resData # 0
    /\ ev.ret = "value"

\* what holds of the code: an observer whose promise is rejected, or that returns,
\* never ends the handler with an exception, and whatever the observer does the
\* waiter is resolved and the listener stays registered
C28_RejectionContained ==
    [][ev'.kind = "notify"
          => /\ ev'.threw
                  => \/ onDataResponse = "throws" /\ ev'.obsData # <<>>
                     \/ onPrintResponse = "throws" /\ ev'.obsPrint # <<>>
             /\ ev'.resData = (IF Len(ev'.value) > 0 /\ Head(ev'.value) = DataTag
                               THEN DataTarget(W0) ELSE 0)
             /\ ev'.resPrint = (IF Len(ev'.value) > 0 /\ Head(ev'.value) # DataTag
                                THEN PrintTarget(W0) ELSE 0)
             /\ UNCHANGED <<rxListeners, gattConnected, handlers>>]_vars

\* the attempt in progress ends in this step, with success or with an error
AttemptSucceeds == attemptLog' = Append(attemptLog, OpenOk)

\* the attempt throws e in this step: its catch block runs, to the end or as far as
\* the wait for stopNotifications, after which it rethrows e
AttemptFails(e) ==
    \/ attemptLog' = Append(attemptLog, e)
    \/ pc' = "stopNotif" /\ curErr' = e

\* the size the texts of the handshake stand for: "5" and "50"; 0 for the texts that
\* are no number above 0 ("0" and the replacement character)
ExpectedMtu(text) ==
    IF text = <<53>> THEN 5 ELSE IF text = <<53, 48>> THEN 50 ELSE 0

\* C27: an attempt succeeds only on a text response to the size query that stands
\* for an integer above 0, and maxPayload is then that integer; on a response that is
\* no number or not above 0, and on the timeout of the query, the attempt fails; and
\* maxPayload changes in no step but that of a success.
C27_SizeQuery ==
    [][LET answered == pc = "mtuWait" /\ hsPromise > 0 /\ ev'.kind = "notify"
                         /\ ev'.resPrint = hsPromise
           early == pc = "mtuWrite" /\ printResponsePromise > 0
                      /\ promise[printResponsePromise].st = "resolved"
           text == IF answered THEN ev'.resVal ELSE promise[printResponsePromise].val
       IN  /\ AttemptSucceeds
                => /\ answered \/ early
                   /\ ExpectedMtu(text) > 0
                   /\ maxPayload' = ExpectedMtu(text)
           /\ ~AttemptSucceeds => maxPayload' = maxPayload
           /\ (answered /\ ExpectedMtu(text) = 0) => AttemptFails(ErrBadMtu)
           /\ (pc = "mtuWait" /\ hsPromise > 0 /\ ev'.kind = "timer"
                 /\ ev'.resPrint = hsPromise) => AttemptFails(ErrTimeout)]_vars

\* C27 happens: after a connection that set the size to 50, an attempt has failed on
\* the response "0" and the size is still 50
C27_Witness ==
    /\ ev.kind = "notify"
    /\ ev.resVal = <<48>>
    /\ Len(attemptLog) >= 1
    /\ attemptLog[Len(attemptLog)] = ErrBadMtu
    /\ maxPayload = 50

\* C27 happens: an attempt has succeeded on the response "50"
C27_WitnessAccepted ==
    /\ ev.kind = "notify"
    /\ ev.resVal = <<53, 48>>
    /\ openResult = OpenOk
    /\ maxPayload = 50
    /\ pc = "idle"

\* C29: connect() asks the user for a device if and only if it holds none; with a
\* device held it goes on with that device, no selection in between, and the device
\* never lists the disconnect listener more than once. Selection starts in no step
\* but a call of connect().
C29_SelectionOnlyWithoutDevice ==
    /\ [](devListener <= 1)
    /\ [][/\ ev'.kind = "connect"
              => /\ pc = "idle"
                 /\ (pc' = "requestDevice") <=> ~device
                 /\ device => ~selected'
                 /\ (device /\ numAttempts' >= 1)
                       => (pc' = "gattConnect" /\ device' /\ devListener' = 1)
          /\ (pc' = "requestDevice" /\ pc # "requestDevice") => ev'.kind = "connect"
          /\ (selected' /\ ~selected) => pc = "requestDevice"]_vars

\* C29 happens: connect() was called on an open session, whose device lists the
\* listener already, and connects again to the device it holds
C29_Witness ==
    /\ ev.kind = "connect"
    /\ pc = "gattConnect"
    /\ device
    /\ ~selected
    /\ gattConnected
    /\ devListener = 1
    /\ attempt = 1

\* C29 happens: connect() without a device has asked the user
C29_WitnessSelection ==
    /\ ev.kind = "connect"
    /\ pc = "requestDevice"
    /\ ~device

\* the commands of an upload that are write commands, and the chunk in one
IsWrite(command) ==
    /\ Len(command) >= 20
    /\ SubSeq(command, 1, 9) = <<102, 58, 119, 114, 105, 116, 101, 40, 34>>

ChunkOf(command) == SubSeq(command, 10, Len(command) - 11)

RECURSIVE ChunksOf(_)
ChunksOf(out) ==
    IF out = <<>> THEN <<>>
    ELSE (IF IsWrite(Head(out)) THEN <<ChunkOf(Head(out))>> ELSE <<>>)
           \o ChunksOf(Tail(out))

RECURSIVE Concatenated(_)
Concatenated(chunks) ==
    IF chunks = <<>> THEN <<>> ELSE Head(chunks) \o Concatenated(Tail(chunks))

\* chunk ends in a run of backslashes of odd length
OddRun(chunk) ==
    \E n \in 1..Len(chunk) :
        /\ n % 2 = 1
        /\ \A k \in (Len(chunk) - n + 1)..Len(chunk) : chunk[k] = Backslash
        /\ n < Len(chunk) => chunk[Len(chunk) - n] # Backslash

\* what one character of the content becomes in the escaped content
EscapeOf(c) ==
    IF c = CarriageReturn THEN <<>>
    ELSE IF c = Newline THEN <<Backslash, LetterN>>
    ELSE IF c = Tab THEN <<Backslash, LetterT>>
    ELSE IF c \in {Backslash, SingleQuote, DoubleQuote} THEN <<Backslash, c>>
    ELSE <<c>>

RECURSIVE Escaped(_)
Escaped(content) ==
    IF content = <<>> THEN <<>> ELSE EscapeOf(Head(content)) \o Escaped(Tail(content))

\* the positions of the escaped content at which no escape sequence is split: the
\* ends of the escaped forms of the prefixes of the content
SequenceEnds(content) ==
    {Len(Escaped(SubSeq(content, 1, k))) : k \in 0..Len(content)}

\* what the device reads in a string literal with the text str: a backslash and the
\* character after it stand for one character (-1: a backslash with nothing after)
RECURSIVE Unescaped(_)
Unescaped(str) ==
    IF str = <<>> THEN <<>>
    ELSE IF Head(str) # Backslash THEN <<Head(str)>> \o Unescaped(Tail(str))
    ELSE IF Len(str) < 2 THEN <<-1>>
    ELSE <<IF str[2] = LetterN THEN Newline
           ELSE IF str[2] = LetterT THEN Tab ELSE str[2]>>
           \o Unescaped(SubSeq(str, 3, Len(str)))

\* C23: no chunk sent in a write command ends in a run of backslashes of odd length,
\* and every chunk ends where an escape sequence of the escaped content ends.
C23_NoSplitEscape ==
    \A t \in TaskIds :
        LET chunks == ChunksOf(tasks[t].u.out)
        IN  \A k \in 1..Len(chunks) :
                /\ ~OddRun(chunks[k])
                /\ Len(Concatenated(SubSeq(chunks, 1, k)))
                     \in SequenceEnds(tasks[t].u.content)

\* C23 happens: a chunk was sent shorter than maxChunkSize although more of the
\* escaped content was left, the character after it a backslash's partner
C23_Witness ==
    /\ tasks[1].pc = "loop"
    /\ tasks[1].u.size > 0
    /\ tasks[1].u.size < getMaxPayload(TRUE) - luaCommandOverhead
    /\ tasks[1].u.i + tasks[1].u.size < Len(tasks[1].u.escaped)
    /\ tasks[1].u.escaped[tasks[1].u.i + tasks[1].u.size + 1] = Backslash

\* C24: when the loop has ended without the throw, the chunks sent, concatenated in
\* the order sent, are the escaped form of the content, and what the device reads in
\* them is the content (without its carriage returns, which the escaping drops); the
\* loop ends in the throw only with a maxChunkSize of 1.
C24_ChunksAreEscapedContent ==
    \A t \in TaskIds :
        LET u == tasks[t].u
            sent == Concatenated(ChunksOf(u.out))
        IN  /\ (tasks[t].pc = "done" /\ u.at = "close")
                => /\ sent = Escaped(u.content)
                   /\ Unescaped(sent) = SelectSeq(u.content,
                                                  LAMBDA c : c # CarriageReturn)
            /\ (tasks[t].pc = "done" /\ u.at # "close")
                => getMaxPayload(TRUE) - luaCommandOverhead = 1

\* C24 happens: a content of a backslash, a newline and a quote was written in more
\* than one chunk
C24_Witness ==
    /\ tasks[1].pc = "done"
    /\ tasks[1].u.at = "close"
    /\ tasks[1].u.content = <<Backslash, Newline, DoubleQuote>>
    /\ Len(tasks[1].u.out) > 1

\* the texts of the open command for "x.lua" and of the close command
OpenXLuaText ==
    <<102, 61, 102, 114, 97, 109, 101, 46, 102, 105, 108, 101, 46, 111, 112, 101,
      110, 40, 39, 120, 46, 108, 117, 97, 39, 44, 39, 119, 39, 41, 59, 112, 114,
      105, 110, 116, 40, 49, 41>>

CloseText ==
    <<102, 58, 99, 108, 111, 115, 101, 40, 41, 59, 112, 114, 105, 110, 116, 40, 110,
      105, 108, 41>>

\* task t is in an upload that returns in this step without an error
UploadReturns(t) == tasks[t].u.on /\ tasks'[t] = IdleTask /\ ev'.ret = "uploaded"

\* the upload of task t passes one more command to sendLua in this step
NextCommand(t) ==
    /\ tasks[t].u.on
    /\ tasks'[t].u.on
    /\ Len(tasks'[t].u.out) = Len(tasks[t].u.out) + 1

\* C25: an upload that returns without error has written the open command, then
\* write commands only, whose chunks in the order written make up the escaped
\* content, then the close command; every command after the open command is
\* written in the step in which the call takes the text response to the command
\* before it, every command is written whole to TX, and an escaped content that fits
\* maxChunkSize gives exactly one write command.
C25_OpenWritesClose ==
    [][\A t \in TaskIds :
         LET out == tasks[t].u.out
             n == Len(out)
             maxChunkSize == maxPayload - 20
         IN  /\ UploadReturns(t)
                  => /\ n >= 2
                     /\ out[1] = OpenXLuaText
                     /\ out[n] = CloseText
                     /\ \A k \in 2..(n - 1) : IsWrite(out[k])
                     /\ Concatenated(ChunksOf(out)) = Escaped(tasks[t].u.content)
                     /\ Len(ChunksOf(out)) = n - 2
                     /\ ev'.kind = "notify" \/ ev'.kind = "writeDone"
                     /\ (/\ Escaped(tasks[t].u.content) # <<>>
                         /\ Len(Escaped(tasks[t].u.content)) <= maxChunkSize)
                          => n = 3
             /\ NextCommand(t)
                  => /\ ev'.wrote = EncodedLength(tasks'[t].u.out[n + 1])
                     /\ \/ /\ ev'.kind = "notify"
                           /\ tasks[t].pc = "wait"
                           /\ tasks[t].p > 0
                           /\ ev'.resPrint = tasks[t].p
                        \/ /\ ev'.kind = "writeDone"
                           /\ tasks[t].pc = "write"
                           /\ printResponsePromise > 0
                           /\ promise[printResponsePromise].st = "resolved"]_vars

\* C25 happens: "hello\nworld" is uploaded with a size of 60; the open command, one
\* write command with hello\\nworld and the close command were written, and the call
\* awaits the response to the last
C25_Witness ==
    /\ maxPayload = DefaultMaxPayload
    /\ tasks[1].pc = "wait"
    /\ tasks[1].u.content = HelloWorld
    /\ tasks[1].u.at = "close"
    /\ Len(tasks[1].u.out) = 3
    /\ ChunkOf(tasks[1].u.out[2])
         = <<104, 101, 108, 108, 111, 92, 110, 119, 111, 114, 108, 100>>

\* C25 happens: an upload has returned without error
C25_WitnessReturned ==
    /\ ev.kind = "notify"
    /\ ev.ret = "uploaded"
    /\ tasks[1] = IdleTask

\* C25 happens: an upload of more than one chunk awaits the response to its close
\* command
C25_WitnessChunks ==
    /\ tasks[1].pc = "wait"
    /\ tasks[1].u.at = "close"
    /\ Len(tasks[1].u.out) > 3

\* the upload of task t ends in this step with an error thrown to its caller
UploadThrows(t) == tasks[t].u.on /\ tasks'[t] = IdleTask /\ ev'.ret # "uploaded"

\* the open command of the upload of task t was answered with "1", before this step
\* or in it
OpenAcknowledged(t) ==
    \/ tasks[t].u.at \in {"write", "close", "closeChunking", "closeWrite"}
    \/ /\ tasks[t].u.at = "open"
       /\ \/ /\ ev'.kind = "notify"
             /\ tasks[t].pc = "wait"
             /\ ev'.resPrint = tasks[t].p
             /\ ev'.resVal = <<49>>
          \/ /\ ev'.kind = "writeDone"
             /\ tasks[t].pc = "write"
             /\ printResponsePromise > 0
             /\ promise[printResponsePromise] = [st |-> "resolved", val |-> <<49>>]
             /\ ev'.ret # "writeFailed"

\* C26: when an upload whose open command was answered with "1" throws, it has
\* written a close command.
C26_ClosedBeforeError ==
    [][\A t \in TaskIds :
         (UploadThrows(t) /\ OpenAcknowledged(t))
             => \E k \in 1..Len(tasks[t].u.out) : tasks[t].u.out[k] = CloseText]_vars

\* C26 fails this way: the response "1" has arrived, the next write command is
\* larger than the size in bytes, sendLua has thrown and the upload with it, nothing
\* written
C26_ThrownWithoutClose ==
    /\ ev.kind = "notify"
    /\ ev.resVal = <<49>>
    /\ ev.ret = "tooLarge"
    /\ ev.wrote = 0
    /\ tasks[1] = IdleTask

\* the part of C26 that holds: after a write command answered with something other
\* than "1" the upload writes the close command before it throws
C26_ClosedAfterRefusedWrite ==
    [][\A t \in TaskIds :
         (UploadThrows(t) /\ ev'.ret = "writeError")
             => /\ tasks[t].u.at = "closeWrite"
                /\ tasks[t].u.out[Len(tasks[t].u.out)] = CloseText]_vars

\* the upload of task t, suspended after a write command, takes in this step a text
\* response other than "1"
WriteRefused(t) ==
    /\ tasks[t].u.on
    /\ tasks[t].u.at = "write"
    /\ \/ /\ ev'.kind = "notify"
          /\ tasks[t].pc = "wait"
          /\ tasks[t].p > 0
          /\ ev'.resPrint = tasks[t].p
          /\ ev'.resVal # <<49>>
       \/ /\ ev'.kind = "writeDone"
          /\ tasks[t].pc = "write"
          /\ ev'.ret # "writeFailed"
          /\ printResponsePromise > 0
          /\ promise[printResponsePromise].st = "resolved"
          /\ promise[printResponsePromise].val # <<49>>

\* C31: when a write command is answered with a text other than "1", the upload
\* passes the close command to sendLua in the same step and it is written whole;
\* from then on the upload passes no further command, and it ends only by throwing.
C31_RefusedWriteClosesAndFails ==
    [][\A t \in TaskIds :
         /\ WriteRefused(t)
              => /\ tasks'[t].u.on
                 /\ tasks'[t].u.at = "closeWrite"
                 /\ tasks'[t].u.out = Append(tasks[t].u.out, CloseText)
                 /\ ev'.wrote = Len(CloseText)
         /\ (tasks[t].u.on /\ tasks[t].u.at = "closeWrite")
              => /\ tasks'[t].u.on => tasks'[t].u = tasks[t].u
                 /\ ev'.ret # "uploaded"
                 /\ ev'.wrote = 0]_vars

\* C31 happens: a write command was answered with "0", the close command is the
\* last of the three commands written, and the upload awaits its response
C31_Witness ==
    /\ tasks[1].pc = "wait"
    /\ tasks[1].u.at = "closeWrite"
    /\ Len(tasks[1].u.out) = 3
    /\ IsWrite(tasks[1].u.out[2])
    /\ tasks[1].u.out[3] = CloseText
    /\ tasks[1].u.i + tasks[1].u.size < Len(tasks[1].u.escaped)

\* C31 happens: the upload has thrown after the response to that close command
C31_WitnessThrown ==
    /\ ev.kind = "notify"
    /\ ev.ret = "writeError"
    /\ tasks[1] = IdleTask

\* the steps in which the application calls a send operation
SendKinds == {"sendLua", "sendData", "sendMessage", "upload"}

\* how a step's call returns when it has thrown
Thrown(ret) == ret \notin {"-", "void", "value", "sent", "uploaded"}

C32_WitnessMessage ==
    /\ ev.kind = "sendMessage"
    /\ ev.ret = "noTx"
    /\ txCharacteristic = 0

C32_WitnessSignal ==
    /\ ev.kind = "sendLua"
    /\ ev.ret = "noTx"
    /\ txCharacteristic = 0
    /\ ~awaitingPrintResponse

\* the channel of the send operation that returns in a step of task t
ReturningChannel(t) ==
    IF ev'.kind = "sendLua" THEN "print"
    ELSE IF ev'.kind = "sendData" THEN "data"
    ELSE tasks[t].chan

\* a sendLua or sendData of the application (not one made by sendMessage or by an
\* upload) throws because of its write to TX: without a TX handle, or the write of
\* an awaited call is rejected
WriteFails(t) ==
    /\ ev'.ret \in {"noTx", "writeFailed"}
    /\ \/ ev'.kind \in {"sendLua", "sendData"}
       \/ /\ ev'.kind = "writeDone"
          /\ tasks[t].pc = "write"
          /\ tasks[t].aw
          /\ tasks[t].m = NoMsg
          /\ ~tasks[t].u.on

\* C33: when a sendLua or sendData of the only caller throws because of its write to
\* TX, the waiter slot of its channel is free and no deadline timer of the channel
\* is running.
C33_FailedWriteFreesWaiter ==
    [][\A t \in OneCaller :
         WriteFails(t)
            => /\ ReturningChannel(t) = "print" => ~awaitingPrintResponse'
               /\ ReturningChannel(t) = "data" => ~awaitingDataResponse'
               /\ \A x \in timers' : x.chan # ReturningChannel(t)]_vars

\* C33 fails: an awaited sendLua has thrown for the missing TX handle, no task is
\* suspended, and the print slot is taken with its timer running
C33_WaiterLeftBehind ==
    /\ ev.kind = "sendLua"
    /\ ev.ret = "noTx"
    /\ \A t \in TaskIds : tasks[t].pc = "idle"
    /\ awaitingPrintResponse
    /\ Timer("print", printResponsePromise) \in timers

\* C34: the step that ends an attempt with a retryable error and attempts remaining
\* keeps the peripheral it was made on, and the end of the retry delay with the
\* peripheral held starts the next attempt on it.
C34_RetryAfterLinkError ==
    [][/\ (pc # "retryDelay" /\ pc' = "retryDelay" /\ device) => device'
       /\ (pc = "retryDelay" /\ pc' # "retryDelay" /\ device)
            => /\ pc' = "gattConnect"
               /\ device'
               /\ attemptsMade' = attemptsMade + 1]_vars

\* C34 fails: connect() has given up after the retry delay of its first attempt,
\* with a retryable error and an attempt remaining
C34_GaveUpAfterDelay ==
    /\ pc = "idle"
    /\ ev.kind = "step"
    /\ Failed
    /\ isRetryableError(openResult)
    /\ attemptsMade = 1
    /\ delaysWaited = 1
    /\ numAttempts = MaxAttempts

\* C35: when the retry delay ends and the peripheral handle has been cleared by a
\* disconnect, connect() makes no further attempt: it throws the last recorded error
\* (the disconnect error when none is recorded) and holds no peripheral, link, TX
\* or RX handle and no listener on the peripheral.
C35_NoAttemptWithoutPeripheral ==
    [][(pc = "retryDelay" /\ ~device /\ pc' # "retryDelay")
         => /\ pc' = "idle"
            /\ attemptsMade' = attemptsMade
            /\ attemptLog' = attemptLog
            /\ openResult' = IF lastError = NoError THEN ErrExternal ELSE lastError
            /\ ~device'
            /\ ~server'
            /\ txCharacteristic' = 0
            /\ rxCharacteristic' = 0
            /\ ~gattConnected'
            /\ devListener' = 0]_vars

\* C35 happens: disconnect() has run the disconnect handler during the retry delay
C35_Witness ==
    /\ pc = "retryDelay"
    /\ ev.kind = "disconnect"
    /\ ev.hd = 1
    /\ ~device
    /\ attempt < numAttempts

\* C35 happens: connect() has then returned without a further attempt
C35_WitnessGaveUp ==
    /\ Failed
    /\ ev.kind = "step"
    /\ attemptsMade < numAttempts
    /\ attemptLog # <<>>
    /\ openResult = attemptLog[Len(attemptLog)]
    /\ isRetryableError(openResult)
    /\ devListener = 0

\* an awaited sendLua or sendData of the application (not one made by sendMessage
\* or by an upload) whose write has started and which has not returned
AwaitedCall(t) ==
    /\ tasks[t].pc \in {"write", "wait"}
    /\ tasks[t].aw
    /\ tasks[t].m = NoMsg
    /\ ~tasks[t].u.on

\* the promise of that call: the one in the field of its channel until the write
\* has settled, the one the call was given back afterwards
PromiseOf(t) ==
    IF tasks[t].pc = "wait" THEN tasks[t].p
    ELSE IF tasks[t].chan = "print" THEN printResponsePromise
    ELSE dataResponsePromise

\* the step delivers a message of the channel of task t
ResponseFor(t) ==
    /\ ev'.kind = "notify"
    /\ ~Dropped(ev'.value)
    /\ IsDataResponse(ev'.value) <=> (tasks[t].chan = "data")

\* the step resolves the promise of task t
ResolvesCallOf(t) ==
    /\ IF tasks[t].chan = "print" THEN ev'.resPrint = PromiseOf(t)
       ELSE ev'.resData = PromiseOf(t)
    /\ tasks[t].pc = "wait" => ev'.ret = "value"
    /\ tasks[t].pc = "write" => promise'[PromiseOf(t)].st = "resolved"

\* the step in which task t calls an awaited sendLua or sendData writes to TX with
\* the waiter and its timer registered
RegisteredAtWrite(t) ==
    LET q == IF ev'.kind = "sendLua" THEN printResponsePromise'
             ELSE dataResponsePromise'
    IN  /\ ev'.wrote > 0
        /\ IF ev'.kind = "sendLua" THEN awaitingPrintResponse' /\ printResolve' = q
           ELSE awaitingDataResponse' /\ dataResolve' = q
        /\ q > 0
        /\ promise'[q].st = "pending"
        /\ Timer(tasks'[t].chan, q) \in timers'

\* C36: an awaited sendLua or sendData has its waiter and its timer registered in
\* the step that writes to TX, and a message of its channel that is delivered after
\* that step while the timer of the call is running resolves the promise of the
\* call.
C36_ResponseAfterWriteResolves ==
    [][\A t \in OneCaller :
         /\ (/\ tasks[t].pc = "idle"
             /\ ev'.kind \in {"sendLua", "sendData"}
             /\ tasks'[t].pc = "write"
             /\ tasks'[t].aw) => RegisteredAtWrite(t)
         /\ (/\ AwaitedCall(t)
             /\ ResponseFor(t)
             /\ Timer(tasks[t].chan, PromiseOf(t)) \in timers) => ResolvesCallOf(t)]_vars

\* C36 fails: a data message has been delivered while the awaited sendData of the
\* caller had written and its own timer was running, and it resolved nothing: the
\* slot had been cleared by the timer of an earlier call
C36_ResponseMissed ==
    /\ ev.kind = "notify"
    /\ ~Dropped(ev.value)
    /\ IsDataResponse(ev.value)
    /\ ev.resData = 0
    /\ \E t \in OneCaller :
         /\ AwaitedCall(t)
         /\ tasks[t].chan = "data"
         /\ promise[PromiseOf(t)].st = "pending"
         /\ Timer("data", PromiseOf(t)) \in timers

\* what the handler passes on of a message: the bytes after the tag of a data
\* message, the decoded text of any other
PayloadOf(value) == IF IsDataResponse(value) THEN Tail(value) ELSE TextDecode(value)

\* no waiter is pending on the channel of the message
NoWaiterFor(value) ==
    IF IsDataResponse(value) THEN ~(awaitingDataResponse /\ dataResolve # 0)
    ELSE ~(awaitingPrintResponse /\ printResolve # 0)

\* C37: a message that arrives while no waiter is pending on its channel changes
\* neither a waiter slot nor a promise nor a call and is passed to the observer of
\* its channel only; the promise an awaited call registers is pending, whatever
\* arrived before; a promise is resolved only by the message of the step that
\* resolves it; and a call returns only the value of the message of its step or
\* the one its promise was resolved with during its write.
C37_NoBuffering ==
    [][/\ (ev'.kind = "notify" /\ ~Dropped(ev'.value) /\ NoWaiterFor(ev'.value))
            => /\ UNCHANGED <<waiters, tasks>>
               /\ ev'.resPrint = 0
               /\ ev'.resData = 0
               /\ ev'.ret = "-"
               /\ IF IsDataResponse(ev'.value)
                  THEN /\ ev'.obsPrint = <<>>
                       /\ ev'.obsData = IF onDataResponse = "none" THEN <<>>
                                        ELSE <<PayloadOf(ev'.value)>>
                  ELSE /\ ev'.obsData = <<>>
                       /\ ev'.obsPrint = IF onPrintResponse = "none" THEN <<>>
                                         ELSE <<PayloadOf(ev'.value)>>
       /\ \A t \in OneCaller :
            (tasks[t].pc = "idle" /\ tasks'[t].pc = "write" /\ tasks'[t].aw)
               => /\ ev'.ret = "-"
                  /\ IF tasks'[t].chan = "print"
                     THEN promise'[printResponsePromise'].st = "pending"
                     ELSE promise'[dataResponsePromise'].st = "pending"
       /\ \A q \in 1..MaxPromises :
            (promise[q].st # "resolved" /\ promise'[q].st = "resolved")
               => /\ ev'.kind = "notify"
                  /\ promise[q].st = "pending"
                  /\ promise'[q].val = PayloadOf(ev'.value)
       /\ ev'.ret = "value"
            => \/ ev'.kind = "notify" /\ ev'.resVal = PayloadOf(ev'.value)
               \/ /\ ev'.kind = "writeDone"
                  /\ \E t \in OneCaller :
                       /\ AwaitedCall(t)
                       /\ promise[PromiseOf(t)].st = "resolved"
                       /\ ev'.resVal = promise[PromiseOf(t)].val]_vars

\* C37 happens: a print message has arrived with no waiter pending and was passed
\* to the observer only
C37_Witness ==
    /\ ev.kind = "notify"
    /\ ~Dropped(ev.value)
    /\ ~IsDataResponse(ev.value)
    /\ ev.resPrint = 0
    /\ ev.obsPrint = <<PayloadOf(ev.value)>>
    /\ \A t \in TaskIds : tasks[t].pc = "idle"
    /\ ~awaitingPrintResponse

\* C37 happens: the write of an awaited sendLua has settled and the call is
\* suspended on its pending promise
C37_WitnessLaterCall ==
    /\ ev.kind = "writeDone"
    /\ ev.ret = "-"
    /\ \E t \in OneCaller :
         /\ tasks[t].pc = "wait"
         /\ tasks[t].chan = "print"
         /\ promise[tasks[t].p].st = "pending"
    /\ onPrintResponse = "ok"

\* C38: a step that runs the disconnect handler leaves no peripheral, server, TX or
\* RX handle and changes neither maxPayload nor an observer; when the step is the
\* loss of the link or disconnect() it changes no waiter slot, promise or timer
\* either.  maxPayload changes only when a size query is answered, so the size
\* query of the next connect() is written only if it is not longer than the
\* maxPayload of the previous link, and fails the attempt as too large otherwise.
C38_DisconnectKeepsPayloadSize ==
    [][/\ ev'.hd > 0 => /\ ~device'
                        /\ ~server'
                        /\ txCharacteristic' = 0
                        /\ rxCharacteristic' = 0
                        /\ UNCHANGED <<maxPayload, handlers>>
       /\ (ev'.hd > 0 /\ ev'.kind \in {"linkLoss", "disconnect"}) => UNCHANGED waiters
       /\ maxPayload' # maxPayload => pc \in {"mtuWrite", "mtuWait"}
       /\ (pc = "breakDelay" /\ pc' # "breakDelay")
            => IF MtuQueryLen <= maxPayload
               THEN ev'.wrote = MtuQueryLen \/ curErr' = ErrNoTx
                      \/ attemptLog' = Append(attemptLog, ErrNoTx)
               ELSE /\ ev'.wrote = 0
                    /\ \/ curErr' = ErrTooLarge
                       \/ attemptLog' = Append(attemptLog, ErrTooLarge)]_vars

\* C38 happens: the link was lost while the size query was awaited, after an
\* earlier handshake had set maxPayload: the waiter, its timer, the callback and
\* maxPayload are as before
C38_Witness ==
    /\ ev.kind = "linkLoss"
    /\ ev.hd = 1
    /\ ev.cb = 1
    /\ maxPayload = 50
    /\ awaitingPrintResponse
    /\ timers # {}
    /\ ~device

\* C38 happens: the size query of a later connect() was refused as longer than the
\* 5 bytes negotiated on the previous link
C38_WitnessNextOpen ==
    /\ maxPayload = 5
    /\ attemptLog # <<>>
    /\ attemptLog[Len(attemptLog)] = ErrTooLarge
    /\ Failed

\* the text that answers the size query in the step that ends the handshake
HandshakeAnswer ==
    IF pc = "mtuWait" THEN ev'.resVal ELSE promise[printResponsePromise].val

\* C39: maxPayload is 60 at first, it is an integer above 0 in every state, a step
\* in which an attempt succeeds sets it to the number its size query was answered
\* with, and no other step changes it.
C39_PayloadSizeOfLastHandshake ==
    /\ maxPayload = DefaultMaxPayload
    /\ [](maxPayload \in Nat /\ maxPayload > 0)
    /\ [][IF AttemptSucceeds
          THEN /\ pc \in {"mtuWrite", "mtuWait"}
               /\ maxPayload' = ExpectedMtu(HandshakeAnswer)
          ELSE maxPayload' = maxPayload]_vars

\* C39 happens: a connect() on the peripheral of an earlier successful one has
\* succeeded with the answer "50", and maxPayload is 50
C39_Witness ==
    /\ pc = "idle"
    /\ openResult = OpenOk
    /\ ev.kind = "notify"
    /\ ev.resVal = <<53, 48>>
    /\ maxPayload = 50
    /\ ~selected

\* C39 happens: connect() has failed and maxPayload is still 60
C39_WitnessDefault ==
    /\ Failed
    /\ selected
    /\ maxPayload = DefaultMaxPayload
    /\ attemptLog # <<>>

\* maxChunkSize of uploadFileFromString in the current state
Capacity == getMaxPayload(TRUE) - luaCommandOverhead

\* C40: with a maxChunkSize of at least 2 no pass of the chunk loop ends in the
\* chunking error: while escaped content is left a pass sends a chunk that starts
\* where the last one ended, has at least one character and at most one fewer than
\* the smaller of maxChunkSize and what is left, and when nothing is left the loop
\* ends.  With a maxChunkSize of 1 the loop sends the characters before the first
\* backslash of the escaped content one by one, and at the backslash it sends the
\* close command and ends in the chunking error.
C40_ChunkLoopTerminates ==
    [][\A t \in OneCaller :
         LET u == tasks[t].u
             v == tasks'[t].u
             from == u.i + u.size
             left == Len(u.escaped) - from
             cut == Min(Capacity, left)
             goesOn == /\ tasks'[t].pc = "loop"
                       /\ ev'.ret = "-"
                       /\ v.i = from
                       /\ v.out = Append(u.out, WriteCommand(substring(u.escaped, from,
                                                                       from + v.size)))
         IN  tasks[t].pc = "loop"
               => /\ left = 0 => tasks'[t].pc = "done" /\ ev'.ret = "uploaded"
                  /\ (Capacity >= 2 /\ left > 0)
                       => /\ goesOn
                          /\ v.size >= 1
                          /\ v.size >= cut - 1
                          /\ v.size <= cut
                  /\ (Capacity = 1 /\ left > 0 /\ u.escaped[from + 1] # Backslash)
                       => goesOn /\ v.size = 1
                  /\ (Capacity = 1 /\ left > 0 /\ u.escaped[from + 1] = Backslash)
                       => /\ tasks'[t].pc = "done"
                          /\ ev'.ret = "chunkingError"
                          /\ v.out = Append(u.out, CloseCommand)]_vars

\* C40 happens: with maxChunkSize 2 the loop has ended without the error after a
\* chunk that was shortened to one character
C40_Witness ==
    /\ Capacity = 2
    /\ tasks[1].pc = "done"
    /\ tasks[1].u.at = "close"
    /\ Len(tasks[1].u.escaped) >= 5
    /\ \E k \in 1..Len(tasks[1].u.out) : Len(ChunkOf(tasks[1].u.out[k])) = 1
    /\ \E k \in 1..Len(tasks[1].u.escaped) : tasks[1].u.escaped[k] = Backslash

\* C40 happens: with maxChunkSize 1 the loop has ended in the chunking error after a
\* chunk was written, and the last command is the close command
C40_WitnessCapacityOne ==
    /\ Capacity = 1
    /\ tasks[1].pc = "done"
    /\ tasks[1].u.at = "closeChunking"
    /\ ev.ret = "chunkingError"
    /\ Len(tasks[1].u.out) >= 2
    /\ tasks[1].u.out[Len(tasks[1].u.out)] = CloseCommand

====
